---- MODULE Spec2Model ----
(***************************************************************************)
(* Model of the two API routes of bitcoin-mempool-app that normalize raw   *)
(* Bitcoin transactions, and of the transaction history of its page:       *)
(*   src/src/app/api/get-bitcoin-node/route.ts  (single transaction, and   *)
(*                                               the mempool summary)      *)
(*   src/src/app/api/get-mempool-txs/route.ts   (list of transactions)     *)
(*   src/src/components/Navbar.tsx              (txHistory, localStorage)  *)
(* Each route has a Node-RPC path and an Explorer path, so a transaction   *)
(* is normalized by one of four adapters.  One action models one whole     *)
(* handler run: the upstream answers are its inputs, the HTTP response its *)
(* result.                                                                 *)
(*                                                                         *)
(* Encoding of JavaScript values:                                          *)
(*  - an optional field is a sequence of length <= 1: None is undefined,   *)
(*    Some(x) is a present x;                                              *)
(*  - the JSON numbers the code multiplies by 1e8 (prevout.value,          *)
(*    output.value, the mempool entry's fee) are fixed-point numbers with  *)
(*    nine decimals, that is integer multiples of 1/NANO, so that a tenth  *)
(*    of a satoshi exists and toFixed(0) has something to round;           *)
(*  - every other number is a plain integer;                               *)
(*  - NaN, which only arises from arithmetic on undefined, is None.        *)
(***************************************************************************)
EXTENDS Integers, Sequences, FiniteSets, TLC

(* Bounds of the model. *)
MaxIn == 2
MaxOut == 2
MaxStack == 2
MaxList == 2

(* 1e8, the satoshis of one coin. *)
COIN == 100000000
NANO == 10 * COIN

None == <<>>
Some(x) == <<x>>
Has(o) == o # <<>>
Get(o) == o[1]

(* Array.prototype.reduce with a numeric accumulator starting at z. *)
RECURSIVE Reduce(_, _, _)
Reduce(f(_, _), s, z) ==
  IF s = <<>> THEN z ELSE Reduce(f, Tail(s), f(z, Head(s)))

(* Array.prototype.map. *)
Map(f(_), s) == [i \in 1..Len(s) |-> f(s[i])]

(* s || undefined for an optional string: the empty string is falsy. *)
TruthyStr(o) == IF Has(o) /\ Get(o) # "" THEN o ELSE None

(* Mutation of OrZero: an absent number becomes -1. *)
OrMinusOne(o) == IF Has(o) THEN Get(o) ELSE -1

(* n || 0 for an optional plain number. *)
OrZero(o) == IF Has(o) THEN Get(o) ELSE 0

(* Number((v * 1e8).toFixed(0)) for an optional fixed-point v: toFixed(0)  *)
(* rounds to the nearest integer, a half away from zero; undefined gives   *)
(* NaN.                                                                    *)
ToSatoshis(v) ==
  IF ~Has(v) THEN None
  ELSE IF Get(v) >= 0 THEN Some((Get(v) + 5) \div 10)
       ELSE Some(-((-Get(v) + 5) \div 10))

(* input.prevout?.value ? Number((input.prevout.value * 1e8).toFixed(0)) : 0 *)
ScaledInputAmount(input) ==
  IF Has(input.prevout) /\ Has(Get(input.prevout).value)
     /\ Get(Get(input.prevout).value) # 0
  THEN Get(ToSatoshis(Get(input.prevout).value))
  ELSE 0

(* Number(((output.value ?? 0) * 1e8).toFixed(0)) || 0 *)
ScaledOutputAmount(output) ==
  OrZero(ToSatoshis(IF Has(output.value) THEN output.value ELSE Some(0)))

(* value || 0 where the code does not scale (Explorer list path): the      *)
(* number itself.  Explorer payloads carry whole numbers of satoshis.      *)
PlainAmount(v) == IF Has(v) THEN Get(v) \div NANO ELSE 0

(* a || b || undefined for two optional strings. *)
FirstTruthy(a, b) == IF Has(TruthyStr(a)) THEN a ELSE TruthyStr(b)

(***************************************************************************)
(* OP_RETURN decoding.  Strings are TLA+ strings, read one character at a  *)
(* time.                                                                   *)
(***************************************************************************)
CharAt(s, i) == SubSeq(s, i, i)

(* String.prototype.split(' '): the pieces between single space            *)
(* characters, empty pieces included.                                      *)
RECURSIVE Split(_)
Split(s) ==
  LET spaces == {i \in 1..Len(s) : CharAt(s, i) = " "} IN
  IF spaces = {} THEN <<s>>
  ELSE LET i == CHOOSE k \in spaces : \A j \in spaces : k <= j
       IN <<SubSeq(s, 1, i - 1)>> \o Split(SubSeq(s, i + 1, Len(s)))

(* The value of a hex digit, -1 for any other character. *)
HexValue(c) ==
  LET lower == "0123456789abcdef"
      upper == "0123456789ABCDEF"
  IN IF \E i \in 1..16 : CharAt(lower, i) = c
     THEN (CHOOSE i \in 1..16 : CharAt(lower, i) = c) - 1
     ELSE IF \E i \in 1..16 : CharAt(upper, i) = c
     THEN (CHOOSE i \in 1..16 : CharAt(upper, i) = c) - 1
     ELSE -1

(* Buffer.from(hex, 'hex'): one byte per pair of hex digits, up to the     *)
(* first pair that is not two hex digits; a last single character is       *)
(* dropped.  It does not throw.                                            *)
RECURSIVE FromHex(_)
FromHex(hex) ==
  IF Len(hex) < 2 THEN <<>>
  ELSE LET hi == HexValue(CharAt(hex, 1))
           lo == HexValue(CharAt(hex, 2))
       IN IF hi < 0 \/ lo < 0 THEN <<>>
          ELSE <<16 * hi + lo>> \o FromHex(SubSeq(hex, 3, Len(hex)))

(* The character of a byte in 0x20..0x7E.  A TLA+ string cannot hold the   *)
(* grave accent (0x60), which is written GRAVE.                            *)
Chr(b) ==
  IF b < 96
  THEN CharAt(" !\"#$%&'()*+,-./0123456789:;<=>?@ABCDEFGHIJKLMNOPQRSTUVWXYZ[\\]^_", b - 31)
  ELSE IF b = 96 THEN "GRAVE"
  ELSE CharAt("abcdefghijklmnopqrstuvwxyz{|}~", b - 96)

(* Mutation of Utf8Printable: the bytes 0x20..0x7F are kept. *)
Utf8PrintableWithDel(bytes) ==
  Reduce(LAMBDA text, b : IF b \in 32..126 THEN text \o Chr(b)
                          ELSE IF b = 127 THEN text \o "DEL" ELSE text,
         bytes, "")

(* buffer.toString('utf8').replace(/[^\x20-\x7E]/g, ''): a byte below 0x80  *)
(* decodes to the character of that code; the bytes from 0x80 up decode to *)
(* characters above 0x7E or to U+FFFD, none of which is kept.              *)
Utf8Printable(bytes) ==
  Reduce(LAMBDA text, b : IF b \in 32..126 THEN text \o Chr(b) ELSE text,
         bytes, "")

(* buffer.toString('utf8').replace(...) || hex *)
OpReturnText(hex) ==
  LET text == Utf8Printable(FromHex(hex)) IN
  IF text # "" THEN text ELSE hex

(* Mutation of OpReturn: the type test is dropped. *)
OpReturnAnyType(type, asm) ==
  IF Has(TruthyStr(asm))
  THEN LET asmParts == Split(Get(asm)) IN
       IF asmParts[1] = "OP_RETURN" /\ Len(asmParts) >= 2 /\ asmParts[2] # ""
       THEN Some(OpReturnText(asmParts[2]))
       ELSE None
  ELSE None

(* if (type === 'nulldata' && asm) { const asmParts = asm.split(' ');      *)
(*   if (asmParts[0] === 'OP_RETURN' && asmParts[1]) { try { ... } } }     *)
(* The catch branch (opReturn = asm) is never taken: nothing in the try    *)
(* block throws.                                                           *)
OpReturn(type, asm) ==
  IF type = Some("nulldata") /\ Has(TruthyStr(asm))
  THEN LET asmParts == Split(Get(asm)) IN
       IF asmParts[1] = "OP_RETURN" /\ Len(asmParts) >= 2 /\ asmParts[2] # ""
       THEN Some(OpReturnText(asmParts[2]))
       ELSE None
  ELSE None

(***************************************************************************)
(* Inputs and outputs of the canonical record, per adapter.                *)
(* A raw input is [prevout, txinwitness, witness], prevout an optional     *)
(* [value, spkAddress, spkType, scriptpubkey_address, scriptpubkey_type],  *)
(* where spkX stands for scriptPubKey.X (an absent scriptPubKey reads as   *)
(* absent X under ?.).  A raw output is [value, spkAddress, spkType,       *)
(* spkAsm, scriptpubkey_address, scriptpubkey_type, scriptpubkey_asm].     *)
(***************************************************************************)
PrevoutField(input, f) ==
  IF Has(input.prevout) THEN Get(input.prevout)[f] ELSE None

NodeInput(input) ==
  [address |-> TruthyStr(PrevoutField(input, "spkAddress")),
   amount |-> ScaledInputAmount(input),
   scriptType |-> TruthyStr(PrevoutField(input, "spkType"))]

NodeOutput(output) ==
  [address |-> TruthyStr(output.spkAddress),
   amount |-> ScaledOutputAmount(output),
   scriptType |-> TruthyStr(output.spkType),
   opReturn |-> OpReturn(output.spkType, output.spkAsm)]

(* output.value !== undefined ? Number((output.value * 1e8).toFixed(0)) : 0 *)
NodeListOutput(output) ==
  [address |-> TruthyStr(output.spkAddress),
   amount |-> IF Has(output.value) THEN Get(ToSatoshis(output.value)) ELSE 0,
   scriptType |-> TruthyStr(output.spkType),
   opReturn |-> OpReturn(output.spkType, output.spkAsm)]

ExplorerInput(input) ==
  [address |-> FirstTruthy(PrevoutField(input, "scriptpubkey_address"),
                           PrevoutField(input, "spkAddress")),
   amount |-> ScaledInputAmount(input),
   scriptType |-> FirstTruthy(PrevoutField(input, "scriptpubkey_type"),
                              PrevoutField(input, "spkType"))]

ExplorerOutput(output) ==
  [address |-> FirstTruthy(output.scriptpubkey_address, output.spkAddress),
   amount |-> ScaledOutputAmount(output),
   scriptType |-> FirstTruthy(output.scriptpubkey_type, output.spkType),
   opReturn |-> OpReturn(output.scriptpubkey_type, output.scriptpubkey_asm)]

ExplorerListInput(input) ==
  [address |-> TruthyStr(PrevoutField(input, "scriptpubkey_address")),
   amount |-> PlainAmount(PrevoutField(input, "value")),
   scriptType |-> TruthyStr(PrevoutField(input, "scriptpubkey_type"))]

ExplorerListOutput(output) ==
  [address |-> TruthyStr(output.scriptpubkey_address),
   amount |-> PlainAmount(output.value),
   scriptType |-> TruthyStr(output.scriptpubkey_type),
   opReturn |-> OpReturn(output.scriptpubkey_type, output.scriptpubkey_asm)]

(***************************************************************************)
(* Witness accounting.                                                     *)
(***************************************************************************)
(* stack.join('') *)
Join(stack) == Reduce(LAMBDA acc, item : acc \o item, stack, "")

(* Mutation of CeilHalf: Math.floor. *)
FloorHalf(n) == n \div 2

(* Math.ceil(n / 2) *)
CeilHalf(n) == (n + 1) \div 2

(* WitnessOf with count the number of inputs that have a stack. *)
WitnessOfInputs(vin, stack(_)) ==
  [count |-> Reduce(LAMBDA sum, input :
                      sum + (IF Has(stack(input)) THEN 1 ELSE 0),
                    vin, 0),
   size |-> Reduce(LAMBDA sum, input :
                     IF Has(stack(input))
                     THEN sum + (Len(Join(Get(stack(input)))) + 1) \div 2
                     ELSE sum,
                   vin, 0)]

(* sum + (stack?.length || 0) over the inputs, and                         *)
(* if (stack) sum + Math.ceil(stack.join('').length / 2) over the inputs,  *)
(* stack(input) being the field(s) the adapter reads.                      *)
WitnessOf(vin, stack(_)) ==
  [count |-> Reduce(LAMBDA sum, input :
                      sum + (IF Has(stack(input)) THEN Len(Get(stack(input))) ELSE 0),
                    vin, 0),
   size |-> Reduce(LAMBDA sum, input :
                     IF Has(stack(input))
                     THEN sum + CeilHalf(Len(Join(Get(stack(input)))))
                     ELSE sum,
                   vin, 0)]

NodeStack(input) == input.txinwitness
ExplorerListStack(input) == input.witness
(* input.witness || input.txinwitness: an array is truthy, even when empty *)
ExplorerStack(input) ==
  IF Has(input.witness) THEN input.witness ELSE input.txinwitness

(* Mutation of NodeWitness: count is the number of inputs with a stack. *)
NodeWitnessInputs(vin) == WitnessOfInputs(vin, NodeStack)

(* Mutation of ExplorerWitness: the count reads input.witness alone and    *)
(* the size reads input.txinwitness || input.witness.                      *)
ExplorerWitnessTwoReads(vin) ==
  [count |-> WitnessOf(vin, ExplorerListStack).count,
   size |-> WitnessOf(vin, LAMBDA input :
                             IF Has(input.txinwitness) THEN input.txinwitness
                             ELSE input.witness).size]

(* Mutation of ExplorerListWitness: the size is rounded up once, over the  *)
(* hex characters of all the inputs together.                              *)
ExplorerListWitnessRoundedOnce(vin) ==
  [count |-> WitnessOf(vin, ExplorerListStack).count,
   size |-> CeilHalf(Reduce(LAMBDA sum, input :
                              IF Has(input.witness)
                              THEN sum + Len(Join(Get(input.witness)))
                              ELSE sum,
                            vin, 0))]

NodeWitness(vin) == WitnessOf(vin, NodeStack)
ExplorerWitness(vin) == WitnessOf(vin, ExplorerStack)
ExplorerListWitness(vin) == WitnessOf(vin, ExplorerListStack)

(***************************************************************************)
(* Script classification.                                                  *)
(***************************************************************************)
ScriptTypes(inputs, outputs) ==
  {Get(inputs[i].scriptType) : i \in {j \in 1..Len(inputs) : Has(inputs[j].scriptType)}}
  \cup
  {Get(outputs[i].scriptType) : i \in {j \in 1..Len(outputs) : Has(outputs[j].scriptType)}}

(* Mutation of WalletType: the legacy tags are tested first. *)
WalletTypeLegacyFirst(inputs, outputs) ==
  LET scriptTypes == ScriptTypes(inputs, outputs) IN
  IF "p2pkh" \in scriptTypes \/ "p2sh" \in scriptTypes THEN "Legacy"
  ELSE IF "v0_p2wpkh" \in scriptTypes \/ "v0_p2wsh" \in scriptTypes THEN "SegWit"
  ELSE IF "p2tr" \in scriptTypes THEN "Taproot"
  ELSE "Unknown"

WalletType(inputs, outputs) ==
  LET scriptTypes == ScriptTypes(inputs, outputs) IN
  IF "p2tr" \in scriptTypes THEN "Taproot"
  ELSE IF "v0_p2wpkh" \in scriptTypes \/ "v0_p2wsh" \in scriptTypes THEN "SegWit"
  ELSE IF "p2pkh" \in scriptTypes \/ "p2sh" \in scriptTypes THEN "Legacy"
  ELSE "Unknown"

(***************************************************************************)
(* Fee.                                                                    *)
(***************************************************************************)
SumAmounts(xs) == Reduce(LAMBDA sum, x : sum + x.amount, xs, 0)

(* Mutation of FeeFallback: the fee === 0 guard is dropped. *)
FeeFallbackUnguarded(fee, inputs, outputs) ==
  IF Len(inputs) > 0 /\ Len(outputs) > 0
  THEN LET inputTotal == SumAmounts(inputs)
           outputTotal == SumAmounts(outputs)
       IN IF inputTotal - outputTotal >= 0 THEN inputTotal - outputTotal ELSE 0
  ELSE fee

(* if (fee === 0 && inputs.length > 0 && outputs.length > 0) { ... }       *)
FeeFallback(fee, inputs, outputs) ==
  IF fee = 0 /\ Len(inputs) > 0 /\ Len(outputs) > 0
  THEN LET inputTotal == SumAmounts(inputs)
           outputTotal == SumAmounts(outputs)
       IN IF inputTotal - outputTotal >= 0 THEN inputTotal - outputTotal ELSE 0
  ELSE fee

(* Number((entry.fee * 1e8).toFixed(0)) || 0 *)
EntryFee(entryFee) == OrZero(ToSatoshis(entryFee))

(***************************************************************************)
(* Source selection (both routes): BITCOIN_NODE_URL is unset, the URL of   *)
(* an RPC endpoint, or a URL that contains '/mempool'.                     *)
(***************************************************************************)
NodeUrls == {"unset", "rpc", "mempool"}
IsRpc(url) == url # "unset" /\ url # "mempool"
Source(url) == IF url # "unset" THEN "Local Bitcoin Node" ELSE "Mempool.space"

(* The upstream a request is sent to, by the host of its URL: the          *)
(* configured BITCOIN_NODE_URL or mempool.space.                           *)
NodeHost == "BITCOIN_NODE_URL"
ExplorerHost == "mempool.space"

(* apiUrl of the summary and of the list: nodeUrl when it is set. *)
ApiUrl(url) == IF url # "unset" THEN NodeHost ELSE ExplorerHost

(* apiUrl = `https://mempool.space/api/tx/${txid}` *)
TxApiUrl(url) == ExplorerHost

(* headers has Authorization: if (nodeUrl) { ... if (nodeAuth) { ... } }   *)
Authorization(url, auth) == url # "unset" /\ auth

(* A fetch: where it is sent and whether it carries the Authorization      *)
(* header.                                                                 *)
Fetch(to, authorization) == [to |-> to, authorization |-> authorization]

(***************************************************************************)
(* Status, confirmations and block height.                                 *)
(***************************************************************************)
(* Mutation of HasConfirmations: the > 0 test is dropped. *)
HasConfirmationsField(tx) == Has(tx.confirmations)

(* tx.confirmations && tx.confirmations > 0 *)
HasConfirmations(tx) == Has(tx.confirmations) /\ Get(tx.confirmations) > 0

(* tx.status?.f *)
StatusField(tx, f) == IF Has(tx.status) THEN Get(tx.status)[f] ELSE None

(* tx.status?.confirmed, read as a condition *)
StatusConfirmed(tx) == Has(tx.status) /\ Get(tx.status).confirmed

(***************************************************************************)
(* The canonical record built by each of the four adapters.                *)
(***************************************************************************)
(* Mutation of NodeInputs: the inputs come out last to first. *)
NodeInputsReversed(vin) == [i \in 1..Len(vin) |-> NodeInput(vin[Len(vin) + 1 - i])]

(* tx.vin.map((input: RawInput) => ({ ... })) *)
NodeInputs(vin) == Map(NodeInput, vin)

(* get-bitcoin-node, Node-RPC path: entry is the result of getmempoolentry *)
(* when that call answered OK with a result.                               *)
NodeRecord(txid, entry, tx, source) ==
  LET inputs == NodeInputs(Get(tx.vin))
      outputs == Map(NodeOutput, Get(tx.vout))
      fee == IF Has(entry) THEN EntryFee(Get(entry).fee) ELSE 0
  IN [txid |-> txid,
      fee |-> FeeFallback(fee, inputs, outputs),
      size |-> IF Has(entry) THEN OrZero(Get(entry).vsize) ELSE 0,
      status |-> IF HasConfirmations(tx) THEN "confirmed" ELSE "pending",
      confirmations |-> OrZero(tx.confirmations),
      version |-> OrZero(tx.version),
      locktime |-> OrZero(tx.locktime),
      blockheight |-> tx.blockheight,
      walletType |-> WalletType(inputs, outputs),
      witness |-> NodeWitness(Get(tx.vin)),
      inputs |-> inputs,
      outputs |-> outputs,
      source |-> source]

(* get-bitcoin-node, Explorer path. *)
ExplorerRecord(data, source) ==
  LET inputs == Map(ExplorerInput, Get(data.vin))
      outputs == Map(ExplorerOutput, Get(data.vout))
  IN [txid |-> data.txid,
      fee |-> OrZero(data.fee),
      size |-> OrZero(data.size),
      status |-> IF StatusConfirmed(data) THEN "confirmed" ELSE "pending",
      confirmations |-> OrZero(StatusField(data, "confirmations")),
      version |-> OrZero(data.version),
      locktime |-> OrZero(data.locktime),
      blockheight |-> StatusField(data, "block_height"),
      walletType |-> WalletType(inputs, outputs),
      witness |-> ExplorerWitness(Get(data.vin)),
      inputs |-> inputs,
      outputs |-> outputs,
      source |-> source]

(* get-mempool-txs, Node-RPC path: entryFee is mempoolData.result[txid].fee *)
NodeListRecord(txid, entryFee, tx, source) ==
  LET inputs == NodeInputs(Get(tx.vin))
      outputs == Map(NodeListOutput, Get(tx.vout))
  IN [txid |-> txid,
      fee |-> FeeFallback(EntryFee(entryFee), inputs, outputs),
      size |-> OrZero(tx.size),
      status |-> IF HasConfirmations(tx) THEN "confirmed" ELSE "pending",
      confirmations |-> OrZero(tx.confirmations),
      version |-> OrZero(tx.version),
      locktime |-> OrZero(tx.locktime),
      blockheight |-> IF HasConfirmations(tx)
                      THEN StatusField(tx, "block_height") ELSE None,
      walletType |-> WalletType(inputs, outputs),
      witness |-> NodeWitness(Get(tx.vin)),
      inputs |-> inputs,
      outputs |-> outputs,
      source |-> source]

(* get-mempool-txs, Explorer path. *)
ExplorerListRecord(tx, source) ==
  LET inputs == Map(ExplorerListInput, Get(tx.vin))
      outputs == Map(ExplorerListOutput, Get(tx.vout))
  IN [txid |-> tx.txid,
      fee |-> OrZero(tx.fee),
      size |-> OrZero(tx.size),
      status |-> IF StatusConfirmed(tx) THEN "confirmed" ELSE "pending",
      confirmations |-> IF StatusConfirmed(tx) THEN 1 ELSE 0,
      version |-> OrZero(tx.version),
      locktime |-> OrZero(tx.locktime),
      blockheight |-> StatusField(tx, "block_height"),
      walletType |-> WalletType(inputs, outputs),
      witness |-> ExplorerListWitness(Get(tx.vin)),
      inputs |-> inputs,
      outputs |-> outputs,
      source |-> source]

(* tx.vin.map / tx.vout.map throw a TypeError when the list is undefined. *)
Throws(tx) == ~Has(tx.vin) \/ ~Has(tx.vout)

(***************************************************************************)
(* Responses.  records holds the transaction record(s) of a 200 response   *)
(* and summary the mempool statistics of the summary's 200 response;       *)
(* an error response holds the body's status field and its error message.  *)
(* A message is [text, http, txid]: the wording, the status after "HTTP"   *)
(* and the txid it quotes, where it has them.                              *)
(***************************************************************************)
OkResponse(records, source) ==
  [http |-> 200, kind |-> "ok", records |-> records, summary |-> None,
   status |-> None, error |-> None, source |-> source]

SummaryResponse(stats, source) ==
  [http |-> 200, kind |-> "ok", records |-> <<>>, summary |-> Some(stats),
   status |-> None, error |-> None, source |-> source]

ErrorResponse(http, status, error, source) ==
  [http |-> http, kind |-> "error", records |-> <<>>, summary |-> None,
   status |-> status, error |-> Some(error), source |-> source]

(* `Transaction ${txid} not found` and                                     *)
(* `Transaction ${txid} not found in mempool`                              *)
NotFoundMessage(txid) == [text |-> "not found", http |-> None, txid |-> Some(txid)]

(* `HTTP ${status}: Failed to fetch ... from ${source}`; txid is the one   *)
(* the single-transaction route quotes.                                    *)
HttpMessage(status, txid) == [text |-> "Failed to fetch", http |-> Some(status), txid |-> txid]

(* 'Invalid mempool data', `Invalid response from ${source}: ...` *)
InvalidMessage == [text |-> "Invalid", http |-> None, txid |-> None]

(* The message of the TypeError of reading .map of undefined. *)
TypeErrorMessage == [text |-> "TypeError", http |-> None, txid |-> None]

(* The message of the Error a rejected fetch throws: "fetch failed" for a  *)
(* network error, "This operation was aborted" for the abort of the        *)
(* 10-second timeout.                                                      *)
RejectedMessage(text) == [text |-> text, http |-> None, txid |-> None]

(* err.message, as the template literals of the routes build it. *)
ErrorMessage(thrown, source) ==
  CASE thrown.text = "Failed to fetch" ->
         "HTTP " \o ToString(Get(thrown.http)) \o ": Failed to fetch "
         \o (IF Has(thrown.txid)
             THEN "transaction " \o ToString(Get(thrown.txid))
             ELSE "mempool")
         \o " from " \o source
    [] thrown.text = "Invalid" ->
         "Invalid response from " \o source \o ": Empty or malformed data"
    [] thrown.text = "TypeError" ->
         "Cannot read properties of undefined (reading 'map')"
    [] thrown.text = "not found" ->
         "Transaction " \o ToString(Get(thrown.txid)) \o " not found"
    [] OTHER -> thrown.text

(* String.prototype.includes *)
Includes(s, t) ==
  \E i \in 1..(Len(s) - Len(t) + 1) : SubSeq(s, i, i + Len(t) - 1) = t

(* s.split(':')[0] *)
BeforeColon(s) ==
  LET colons == {i \in 1..Len(s) : CharAt(s, i) = ":"} IN
  IF colons = {} THEN s
  ELSE SubSeq(s, 1, (CHOOSE k \in colons : \A j \in colons : k <= j) - 1)

(* s.replace(t, ''): the first occurrence of t is removed. *)
RemoveFirst(s, t) ==
  LET at == {i \in 1..(Len(s) - Len(t) + 1) : SubSeq(s, i, i + Len(t) - 1) = t} IN
  IF at = {} THEN s
  ELSE LET i == CHOOSE k \in at : \A j \in at : k <= j
       IN SubSeq(s, 1, i - 1) \o SubSeq(s, i + Len(t), Len(s))

(* String.prototype.trim *)
RECURSIVE Trim(_)
Trim(s) ==
  IF s = "" THEN s
  ELSE IF CharAt(s, 1) \in {" ", "\t"} THEN Trim(SubSeq(s, 2, Len(s)))
  ELSE IF CharAt(s, Len(s)) \in {" ", "\t"} THEN Trim(SubSeq(s, 1, Len(s) - 1))
  ELSE s

(* The value of a decimal digit, -1 for any other character. *)
DigitValue(c) ==
  LET digits == "0123456789" IN
  IF \E i \in 1..10 : CharAt(digits, i) = c
  THEN (CHOOSE i \in 1..10 : CharAt(digits, i) = c) - 1
  ELSE -1

(* parseInt of an unsigned text: the number its leading digits spell,      *)
(* absent (NaN) when it does not start with a digit.                       *)
ParseInt(s) ==
  LET RECURSIVE Digits(_, _)
      Digits(i, n) ==
        IF i > Len(s) \/ DigitValue(CharAt(s, i)) < 0 THEN n
        ELSE Digits(i + 1, 10 * n + DigitValue(CharAt(s, i)))
  IN IF s = "" \/ DigitValue(CharAt(s, 1)) < 0 THEN None
     ELSE Some(Digits(1, 0))

(* errorMessage.includes('HTTP')                                           *)
(*   ? parseInt(errorMessage.split(':')[0].replace('HTTP', '').trim())     *)
(*   : undefined                                                           *)
StatusOfMessage(errorMessage) ==
  IF Includes(errorMessage, "HTTP")
  THEN ParseInt(Trim(RemoveFirst(BeforeColon(errorMessage), "HTTP")))
  ELSE None

(* Mutation of Caught: the response's HTTP status is 500 whatever the      *)
(* message.                                                                *)
CaughtAsInternalError(thrown, source) ==
  ErrorResponse(500, StatusOfMessage(ErrorMessage(thrown, source)), thrown, source)

(* The routes' catch block: the body's status is the one parsed from the   *)
(* message and the HTTP status is status || 500.                           *)
Caught(thrown, source) ==
  LET status == StatusOfMessage(ErrorMessage(thrown, source)) IN
  IF Has(status) /\ Get(status) # 0
  THEN ErrorResponse(Get(status), status, thrown, source)
  ELSE ErrorResponse(500, status, thrown, source)

(* { error: `Transaction ${txid} not found...`, source, status: 404 },     *)
(* { status: 404 }                                                         *)
NotFound(txid, source) == ErrorResponse(404, Some(404), NotFoundMessage(txid), source)

(***************************************************************************)
(* The handlers.  An RPC answer is [ok, status, error, result]: the HTTP   *)
(* outcome and the JSON-RPC envelope; an Explorer answer is                *)
(* [ok, status, data].                                                     *)
(***************************************************************************)
(* getmempoolentry: if (mempoolResponse.ok) { if (mempoolData.result) ... } *)
EntryOf(entryAnswer) ==
  IF entryAnswer.ok THEN entryAnswer.result ELSE None

(* get-bitcoin-node GET with a txid, isRpc && nodeUrl. *)
GetTransactionNode(txid, entryAnswer, txAnswer, source) ==
  IF Has(entryAnswer.thrown)
  THEN Caught(RejectedMessage(Get(entryAnswer.thrown)), source)
  ELSE IF Has(txAnswer.thrown)
  THEN Caught(RejectedMessage(Get(txAnswer.thrown)), source)
  ELSE IF ~txAnswer.ok THEN Caught(HttpMessage(txAnswer.status, Some(txid)), source)
  ELSE IF txAnswer.error \/ ~Has(txAnswer.result)
  THEN NotFound(txid, source)
  ELSE IF Throws(Get(txAnswer.result)) THEN Caught(TypeErrorMessage, source)
  ELSE OkResponse(<<NodeRecord(txid, EntryOf(entryAnswer),
                               Get(txAnswer.result), source)>>, source)

(* get-bitcoin-node GET with a txid, otherwise. *)
GetTransactionExplorer(txid, answer, source) ==
  IF Has(answer.thrown) THEN Caught(RejectedMessage(Get(answer.thrown)), source)
  ELSE IF ~answer.ok THEN NotFound(txid, source)
  ELSE IF Throws(Get(answer.data)) THEN Caught(TypeErrorMessage, source)
  ELSE OkResponse(<<ExplorerRecord(Get(answer.data), source)>>, source)

(* Mutation of GetMempoolInfo: the Node-RPC summary takes total_fee from   *)
(* the result.                                                             *)
GetMempoolInfoWithFee(isRpc, answer, source) ==
  IF Has(answer.thrown) THEN Caught(RejectedMessage(Get(answer.thrown)), source)
  ELSE IF ~answer.ok THEN Caught(HttpMessage(answer.status, None), source)
  ELSE IF ~Has(answer.data) \/ (isRpc /\ ~Has(Get(answer.data).result))
  THEN Caught(InvalidMessage, source)
  ELSE IF isRpc
  THEN LET mempoolInfo == Get(Get(answer.data).result) IN
       SummaryResponse([count |-> OrZero(mempoolInfo.size),
                        total_fee |-> OrZero(mempoolInfo.total_fee),
                        vsize |-> OrZero(mempoolInfo.bytes),
                        source |-> source], source)
  ELSE LET data == Get(answer.data) IN
       SummaryResponse([count |-> OrZero(data.count),
                        total_fee |-> OrZero(data.total_fee),
                        vsize |-> OrZero(data.vsize),
                        source |-> source], source)

(* get-bitcoin-node GET without a txid: the answer is [ok, status, data],  *)
(* data the parsed body, absent for null; a Node-RPC body is [result], an  *)
(* Explorer body [count, total_fee, vsize].                                *)
GetMempoolInfo(isRpc, answer, source) ==
  IF Has(answer.thrown) THEN Caught(RejectedMessage(Get(answer.thrown)), source)
  ELSE IF ~answer.ok THEN Caught(HttpMessage(answer.status, None), source)
  ELSE IF ~Has(answer.data) \/ (isRpc /\ ~Has(Get(answer.data).result))
  THEN Caught(InvalidMessage, source)
  ELSE IF isRpc
  THEN LET mempoolInfo == Get(Get(answer.data).result) IN
       SummaryResponse([count |-> OrZero(mempoolInfo.size),
                        total_fee |-> 0,
                        vsize |-> OrZero(mempoolInfo.bytes),
                        source |-> source], source)
  ELSE LET data == Get(answer.data) IN
       SummaryResponse([count |-> OrZero(data.count),
                        total_fee |-> OrZero(data.total_fee),
                        vsize |-> OrZero(data.vsize),
                        source |-> source], source)

(* Object.keys(mempoolData.result).slice(0, limit): a negative limit      *)
(* counts from the end of the list.                                        *)
Take(s, n) ==
  IF n >= Len(s) THEN s
  ELSE IF n >= 0 THEN SubSeq(s, 1, n)
  ELSE SubSeq(s, 1, Len(s) + n)

(* The transactions of the Node-RPC list loop that are not skipped: an     *)
(* item is [txid, entryFee, answer], answer being getrawtransaction's.     *)
Pushed(item) ==
  /\ ~Has(item.answer.thrown)
  /\ item.answer.ok
  /\ ~item.answer.error
  /\ Has(item.answer.result)
  /\ ~Throws(Get(item.answer.result))

Kept(items) == SelectSeq(items, Pushed)

(* get-mempool-txs GET, isRpc && nodeUrl. *)
GetMempoolTxsNode(limit, mempoolAnswer, source) ==
  IF Has(mempoolAnswer.thrown)
  THEN Caught(RejectedMessage(Get(mempoolAnswer.thrown)), source)
  ELSE IF ~mempoolAnswer.ok THEN Caught(HttpMessage(mempoolAnswer.status, None), source)
  ELSE IF mempoolAnswer.error \/ ~Has(mempoolAnswer.result)
  THEN Caught(InvalidMessage, source)
  ELSE OkResponse(
         Map(LAMBDA item : NodeListRecord(item.txid, item.entryFee,
                                          Get(item.answer.result), source),
             Kept(Take(Get(mempoolAnswer.result), limit))),
         source)

(* Mutation of GetMempoolTxsExplorer: a transaction without its lists is   *)
(* left out, as in the Node-RPC loop.                                      *)
GetMempoolTxsExplorerSkipping(answer, source) ==
  IF Has(answer.thrown) THEN Caught(RejectedMessage(Get(answer.thrown)), source)
  ELSE IF ~answer.ok THEN Caught(HttpMessage(answer.status, None), source)
  ELSE OkResponse(Map(LAMBDA tx : ExplorerListRecord(tx, source),
                      SelectSeq(Get(answer.data), LAMBDA tx : ~Throws(tx))),
                  source)

(* get-mempool-txs GET, otherwise. *)
GetMempoolTxsExplorer(answer, source) ==
  IF Has(answer.thrown) THEN Caught(RejectedMessage(Get(answer.thrown)), source)
  ELSE IF ~answer.ok THEN Caught(HttpMessage(answer.status, None), source)
  ELSE IF \E i \in 1..Len(Get(answer.data)) : Throws(Get(answer.data)[i])
  THEN Caught(TypeErrorMessage, source)
  ELSE OkResponse(Map(LAMBDA tx : ExplorerListRecord(tx, source),
                      Get(answer.data)),
                  source)

(***************************************************************************)
(* The upstream payloads the handlers are run on.  Each family varies the  *)
(* fields one part of the normalization reads, over every list of at most  *)
(* MaxIn inputs and MaxOut outputs, and leaves the other fields at a       *)
(* default.                                                                *)
(***************************************************************************)
SeqsUpTo(S, n) == UNION {[1..k -> S] : k \in 0..n}

Prevout(value, spkType, xType) ==
  Some([value |-> value, spkAddress |-> None, spkType |-> spkType,
        scriptpubkey_address |-> None, scriptpubkey_type |-> xType])

In(prevout, txinwitness, witness) ==
  [prevout |-> prevout, txinwitness |-> txinwitness, witness |-> witness]

Out(value, spkType, xType) ==
  [value |-> value, spkAddress |-> None, spkType |-> spkType, spkAsm |-> None,
   scriptpubkey_address |-> None, scriptpubkey_type |-> xType,
   scriptpubkey_asm |-> None]

Tx(vin, vout) ==
  [txid |-> 1, fee |-> None, size |-> None, vin |-> vin, vout |-> vout,
   confirmations |-> None, version |-> None, locktime |-> None,
   blockheight |-> None, status |-> None]

(* An input of 2 and an output of 1: whole numbers, as either source may   *)
(* give them.                                                              *)
PlainIn == In(Prevout(Some(2 * NANO), None, None), None, None)
PlainOut == Out(Some(NANO), None, None)

(* Amounts.  Node-RPC values are coins with up to nine decimals: 5000 is   *)
(* 500 satoshis, 5005 is 500.5 satoshis, 7004 is 700.4 satoshis.  Explorer *)
(* values are whole satoshis.                                              *)
NodeAmountIns ==
  {In(None, None, None)}
  \cup {In(Prevout(v, None, None), None, None) : v \in {Some(5000), Some(7000)}}
NodeAmountOuts ==
  {Out(v, None, None) : v \in {None, Some(5005), Some(7004)}}
NodeAmountTxs ==
  {Tx(Some(vin), Some(vout)) :
     vin \in SeqsUpTo(NodeAmountIns, MaxIn), vout \in SeqsUpTo(NodeAmountOuts, MaxOut)}

(* The fee of a mempool entry, in coins: absent, 0, 0.4 satoshi,           *)
(* 100.6 satoshis, -100 satoshis.                                          *)
EntryFees == {None, Some(0), Some(4), Some(1006), Some(-1000)}

ExplorerAmountIns ==
  {In(None, None, None)}
  \cup {In(Prevout(v, None, None), None, None) : v \in {Some(NANO), Some(2 * NANO)}}
ExplorerAmountOuts ==
  {Out(v, None, None) : v \in {None, Some(NANO), Some(2 * NANO)}}
ExplorerFees == {None, Some(0), Some(150), Some(-150)}
ExplorerAmountTxs ==
  {[Tx(Some(vin), Some(vout)) EXCEPT !.fee = f] :
     vin \in SeqsUpTo(ExplorerAmountIns, MaxIn),
     vout \in SeqsUpTo(ExplorerAmountOuts, MaxOut),
     f \in ExplorerFees}

(* Script types. *)
NodeScriptIns ==
  {In(Prevout(Some(7000), t, None), None, None) :
     t \in {None, Some("p2tr"), Some("p2pkh")}}
NodeScriptOuts ==
  {Out(Some(5000), t, None) :
     t \in {Some("v0_p2wpkh"), Some("v0_p2wsh"), Some("p2sh"), Some("nulldata")}}
NodeScriptTxs ==
  {Tx(Some(vin), Some(vout)) :
     vin \in SeqsUpTo(NodeScriptIns, MaxIn), vout \in SeqsUpTo(NodeScriptOuts, MaxOut)}

ExplorerScriptIns ==
  {In(Prevout(Some(NANO), None, t), None, None) : t \in {None, Some("p2pkh")}}
  \cup {In(Prevout(Some(NANO), Some("p2tr"), None), None, None),
        In(Prevout(Some(NANO), Some("p2tr"), Some("v0_p2wsh")), None, None)}
ExplorerScriptOuts ==
  {Out(Some(NANO), None, t) :
     t \in {Some("p2tr"), Some("v0_p2wpkh"), Some("p2sh")}}
  \cup {Out(Some(NANO), Some("p2pkh"), Some("nulldata"))}
ExplorerScriptTxs ==
  {Tx(Some(vin), Some(vout)) :
     vin \in SeqsUpTo(ExplorerScriptIns, MaxIn),
     vout \in SeqsUpTo(ExplorerScriptOuts, MaxOut)}

(* Script disassemblies of null-data outputs: the text "Hello"; no payload; *)
(* bytes without a printable character; text with a two-byte character and *)
(* a DEL; upper-case hex; a payload of odd length; payloads with a non-hex *)
(* character; the disassembly of an Explorer, which names the push opcode; *)
(* two spaces, a tab and a leading space as separators; another opcode.    *)
Asms ==
  {None, Some(""), Some("OP_RETURN"), Some("OP_RETURN 48656c6c6f"),
   Some("OP_RETURN 00ff"), Some("OP_RETURN 48c3a97f69"), Some("OP_RETURN 4A4b"),
   Some("OP_RETURN 48656c6c6"), Some("OP_RETURN 48zz"), Some("OP_RETURN zz48"),
   Some("OP_RETURN OP_PUSHBYTES_5 48656c6c6f"),
   Some("OP_RETURN  4869"), Some("OP_RETURN\t4869"), Some(" OP_RETURN 4869"),
   Some("OP_DUP 4869")}

AsmOut(spkType, spkAsm, xType, xAsm) ==
  [Out(Some(0), spkType, xType) EXCEPT !.spkAsm = spkAsm, !.scriptpubkey_asm = xAsm]

Hello == Some("OP_RETURN 48656c6c6f")

NodeAsmOuts ==
  {AsmOut(Some("nulldata"), a, None, None) : a \in Asms}
  \cup {AsmOut(t, Hello, None, None) : t \in {None, Some("p2pkh")}}
NodeAsmTxs ==
  {Tx(Some(<<PlainIn>>), Some(<<out>>)) : out \in NodeAsmOuts}
  \cup {Tx(Some(<<PlainIn>>), Some(<<PlainOut, AsmOut(Some("nulldata"), Hello, None, None)>>))}

(* Explorer outputs, and outputs that mix the fields of the two shapes.    *)
ExplorerAsmOuts ==
  {AsmOut(None, None, Some("nulldata"), a) : a \in Asms}
  \cup {AsmOut(None, None, t, Hello) : t \in {None, Some("p2pkh")}}
  \cup {AsmOut(Some("nulldata"), Hello, None, None),
        AsmOut(Some("nulldata"), None, None, Hello),
        AsmOut(None, Hello, Some("nulldata"), None)}
ExplorerAsmTxs ==
  {Tx(Some(<<PlainIn>>), Some(<<out>>)) : out \in ExplorerAsmOuts}
  \cup {Tx(Some(<<PlainIn>>), Some(<<PlainOut, AsmOut(None, None, Some("nulldata"), Hello)>>))}

(* Optional fields, present and absent: inputs and outputs with every      *)
(* field of both shapes, and with the value, the addresses or the types    *)
(* left out; transactions with and without version, locktime and size.     *)
FullPrevout ==
  [value |-> Some(2 * NANO), spkAddress |-> Some("bc1qnode"), spkType |-> Some("p2pkh"),
   scriptpubkey_address |-> Some("bc1qflat"), scriptpubkey_type |-> Some("p2pkh")]
FullOut ==
  [Out(Some(NANO), Some("p2sh"), Some("p2sh"))
     EXCEPT !.spkAddress = Some("3node"), !.scriptpubkey_address = Some("3flat")]
OptionalIns ==
  {In(None, None, None), In(Some(FullPrevout), None, None),
   In(Some([FullPrevout EXCEPT !.value = None]), None, None),
   In(Some([FullPrevout EXCEPT !.spkAddress = None, !.scriptpubkey_address = None]),
      None, None),
   In(Some([FullPrevout EXCEPT !.spkAddress = Some(""), !.scriptpubkey_address = None]),
      None, None),
   In(Some([FullPrevout EXCEPT !.spkType = None, !.scriptpubkey_type = None]),
      None, None)}
OptionalOuts ==
  {FullOut, [FullOut EXCEPT !.value = None],
   [FullOut EXCEPT !.spkAddress = None, !.scriptpubkey_address = None],
   [FullOut EXCEPT !.spkType = None, !.scriptpubkey_type = None]}
OptionalTxs ==
  {[Tx(Some(<<input>>), Some(<<output>>))
      EXCEPT !.version = h[1], !.locktime = h[2], !.size = h[3]] :
     input \in OptionalIns, output \in OptionalOuts,
     h \in {<<None, None, None>>, <<Some(2), Some(800000), Some(225)>>}}

(* Confirmation state. *)
Statuses ==
  {None}
  \cup {Some([confirmed |-> c, block_height |-> h, confirmations |-> n]) :
          c \in BOOLEAN, h \in {None, Some(7)}, n \in {None, Some(0), Some(3)}}
StatusTxs ==
  {[Tx(Some(<<PlainIn>>), Some(<<PlainOut>>))
      EXCEPT !.confirmations = n, !.blockheight = h, !.status = st] :
     n \in {None, Some(0), Some(3), Some(-1)}, h \in {None, Some(5)},
     st \in Statuses}

(* Witness stacks: hex strings, of odd length too. *)
HexItems == {"f", "ab"}
Stacks ==
  {None, Some(<<"ab", "cdef">>)}
  \cup {Some(stack) : stack \in SeqsUpTo(HexItems, MaxStack)}
NodeWitnessTxs ==
  {Tx(Some(vin), Some(<<PlainOut>>)) :
     vin \in SeqsUpTo({In(None, st, None) : st \in Stacks}, MaxIn)}
ExplorerWitnessIns ==
  {In(None, None, st) : st \in Stacks}
  \cup {In(None, Some(<<"ab">>), Some(<<>>)), In(None, Some(<<"f">>), None)}
ExplorerWitnessTxs ==
  {Tx(Some(vin), Some(<<PlainOut>>)) : vin \in SeqsUpTo(ExplorerWitnessIns, MaxIn)}

(* Payloads without an input list or an output list. *)
MalformedTxs ==
  {Tx(None, Some(<<PlainOut>>)), Tx(Some(<<PlainIn>>), None), Tx(None, None)}

(* The payloads of a self-hosted Explorer-compatible server                *)
(* (BITCOIN_NODE_URL containing '/mempool').                               *)
SelfHostedTxs == StatusTxs \cup MalformedTxs

NodeTxs ==
  NodeScriptTxs \cup NodeAsmTxs \cup OptionalTxs \cup StatusTxs \cup NodeWitnessTxs
  \cup MalformedTxs
ExplorerTxs ==
  ExplorerAmountTxs \cup ExplorerScriptTxs \cup ExplorerAsmTxs \cup OptionalTxs
  \cup StatusTxs
  \cup ExplorerWitnessTxs \cup MalformedTxs

(***************************************************************************)
(* The upstream answers.                                                   *)
(***************************************************************************)
(* The txids a transaction is asked by. *)
Txids == {1, 2}

RpcResult(result) ==
  [ok |-> TRUE, status |-> 200, error |-> FALSE, result |-> Some(result),
   thrown |-> None]

(* The non-OK statuses an upstream answers with. *)
FailureStatuses == {404, 500, 503}

(* A non-OK HTTP answer, an answer with an error, an answer without result. *)
RpcFailures ==
  {[ok |-> FALSE, status |-> st, error |-> FALSE, result |-> None,
    thrown |-> None] : st \in FailureStatuses}
  \cup {[ok |-> TRUE, status |-> 200, error |-> TRUE, result |-> None,
         thrown |-> None],
        [ok |-> TRUE, status |-> 200, error |-> FALSE, result |-> None,
         thrown |-> None]}

(* A fetch that rejects instead of answering: thrown holds the message of  *)
(* its Error, and there is no response to read.                            *)
Rejections == {"fetch failed", "This operation was aborted"}
RpcRejected ==
  {[ok |-> FALSE, status |-> 0, error |-> FALSE, result |-> None,
    thrown |-> Some(t)] : t \in Rejections}

Entry(fee) == RpcResult([fee |-> fee, vsize |-> Some(141)])
PlainEntryFee == Some(1000)
EntryAnswers ==
  {[ok |-> FALSE, status |-> 500, error |-> FALSE, result |-> None,
    thrown |-> None],
   [ok |-> TRUE, status |-> 200, error |-> TRUE, result |-> None,
    thrown |-> None]}
  \cup {Entry(f) : f \in EntryFees}

(* get-bitcoin-node, Node-RPC path: the answers to getmempoolentry and     *)
(* getrawtransaction.                                                      *)
NodeTxRequests ==
  {[txid |-> 1, entry |-> e, answer |-> RpcResult(tx)] :
     e \in EntryAnswers, tx \in NodeAmountTxs}
  \cup {[txid |-> 1, entry |-> Entry(PlainEntryFee), answer |-> RpcResult(tx)] :
          tx \in NodeTxs}
  \cup {[txid |-> t, entry |-> Entry(PlainEntryFee), answer |-> a] :
          t \in Txids, a \in RpcFailures \cup RpcRejected}
  \cup {[txid |-> 1, entry |-> a, answer |-> a] : a \in RpcRejected}

ExplorerResult(data) ==
  [ok |-> TRUE, status |-> 200, data |-> Some(data), thrown |-> None]
ExplorerFailures ==
  {[ok |-> FALSE, status |-> st, data |-> None, thrown |-> None] :
     st \in FailureStatuses}
ExplorerRejected ==
  {[ok |-> FALSE, status |-> 0, data |-> None, thrown |-> Some(t)] :
     t \in Rejections}

(* get-bitcoin-node, Explorer path: the answer to /api/tx/<txid>. *)
ExplorerTxRequests(url) ==
  {[txid |-> 1, answer |-> ExplorerResult(tx)] :
     tx \in IF url = "unset" THEN ExplorerTxs ELSE SelfHostedTxs}
  \cup {[txid |-> t, answer |-> a] :
          t \in Txids, a \in ExplorerFailures \cup ExplorerRejected}

(* limit = parseInt(searchParams.get('limit') || '10', 10) *)
DefaultLimit == 10

PlainTx == Tx(Some(<<PlainIn>>), Some(<<PlainOut>>))

(* get-mempool-txs, Node-RPC path: the answer to getrawmempool, and for    *)
(* each of its txids, in key order, the answer to getrawtransaction.       *)
Item(txid, entryFee, answer) ==
  [txid |-> txid, entryFee |-> entryFee, answer |-> answer]
NodeListAnswers ==
  {RpcResult(PlainTx), RpcResult(Tx(None, Some(<<PlainOut>>)))}
  \cup RpcFailures \cup RpcRejected
MixedLists ==
  {[i \in 1..MaxList |-> Item(i, PlainEntryFee, answers[i])] :
     answers \in [1..MaxList -> NodeListAnswers]}
NodeLists ==
  {<<Item(1, f, RpcResult(tx))>> : f \in EntryFees, tx \in NodeAmountTxs}
  \cup {<<Item(1, PlainEntryFee, RpcResult(tx))>> : tx \in NodeTxs}
  \cup MixedLists
(* The limit of the query, parsed: absent (10), and the numbers a caller   *)
(* may give.                                                               *)
Limits == {DefaultLimit, 0, 1, MaxList, -1}
NodeListRequests ==
  {[limit |-> l, answer |-> RpcResult(items)] :
     l \in {DefaultLimit}, items \in NodeLists}
  \cup {[limit |-> l, answer |-> RpcResult(items)] :
          l \in Limits, items \in MixedLists}
  \cup {[limit |-> DefaultLimit, answer |-> a] :
          a \in RpcFailures \cup RpcRejected}

(* get-mempool-txs, Explorer path: the answer to /api/mempool/recent. *)
ExplorerLists(url) ==
  {<<tx>> : tx \in IF url = "unset" THEN ExplorerTxs ELSE SelfHostedTxs}
  \cup {[i \in 1..MaxList |-> [txs[i] EXCEPT !.txid = i]] :
          txs \in [1..MaxList -> {PlainTx, Tx(None, Some(<<PlainOut>>))}]}
ExplorerListRequests(url) ==
  {[limit |-> DefaultLimit, answer |-> ExplorerResult(txs)] : txs \in ExplorerLists(url)}
  \cup {[limit |-> DefaultLimit, answer |-> a] :
          a \in ExplorerFailures \cup ExplorerRejected}

(* get-bitcoin-node without a txid: the answer to getmempoolinfo or to     *)
(* /api/mempool.                                                           *)
Counts == {None, Some(0), Some(12)}
MempoolInfos ==
  {[size |-> n, bytes |-> b, total_fee |-> f] :
     n \in Counts, b \in {None, Some(3400)}, f \in {None, Some(5)}}
ExplorerStats ==
  {[count |-> n, total_fee |-> f, vsize |-> v] :
     n \in Counts, f \in {None, Some(0), Some(150)}, v \in {None, Some(3400)}}
SummaryRequests(url) ==
  {[txid |-> 0, answer |-> a] : a \in ExplorerFailures \cup ExplorerRejected}
  \cup {[txid |-> 0, answer |-> [ok |-> TRUE, status |-> 200, data |-> None,
                                 thrown |-> None]]}
  \cup IF IsRpc(url)
       THEN {[txid |-> 0, answer |-> ExplorerResult([result |-> r])] :
               r \in {None} \cup {Some(info) : info \in MempoolInfos}}
       ELSE {[txid |-> 0, answer |-> ExplorerResult(stats)] : stats \in ExplorerStats}

(***************************************************************************)
(* The state machine: nodeUrl is the process's BITCOIN_NODE_URL; path is   *)
(* the handler that is answering a request ("idle" between requests), req  *)
(* the upstream answers it was given, sent the fetches it made (all of one *)
(* handler run go to the same URL with the same headers) and resp the      *)
(* response it returns.  nodeAuth says whether BITCOIN_NODE_AUTH is set.    *)
(* The routes keep nothing from one request to the next: Return ends the   *)
(* request and drops its locals.                                           *)
(*                                                                         *)
(* The page's Navbar component keeps txHistory, the list of transactions   *)
(* it shows, and stored, the 'txHistory' item of localStorage (absent      *)
(* until it is set); now is the clock Date.now() reads, pending says that  *)
(* txHistory changed and the effect that saves it has not run yet, and     *)
(* latest is the newest txid of the upstream mempool.                      *)
(***************************************************************************)
VARIABLES nodeUrl, nodeAuth, path, req, sent, resp,
          txHistory, stored, now, pending, latest

vars == <<nodeUrl, nodeAuth, path, req, sent, resp,
          txHistory, stored, now, pending, latest>>

(* The state of the routes and the state of the page. *)
routes == <<nodeUrl, nodeAuth, path, req, sent, resp>>
page == <<txHistory, stored, now, pending, latest>>

(* The environment of the process. *)
env == <<nodeUrl, nodeAuth>>

NoFetch == Fetch("", FALSE)

NoResponse ==
  [http |-> 0, kind |-> "none", records |-> <<>>, summary |-> None,
   status |-> None, error |-> None, source |-> ""]

Init ==
  /\ nodeUrl \in NodeUrls
  /\ nodeAuth \in BOOLEAN
  /\ path = "idle"
  /\ req = [txid |-> 0]
  /\ sent = NoFetch
  /\ resp = NoResponse
  /\ txHistory = <<>>
  /\ stored = None
  /\ now = 0
  /\ pending = FALSE
  /\ latest = 0

GetTxNode ==
  /\ path = "idle"
  /\ IsRpc(nodeUrl)
  /\ \E r \in NodeTxRequests :
       /\ path' = "tx-node"
       /\ req' = r
       /\ resp' = GetTransactionNode(r.txid, r.entry, r.answer, Source(nodeUrl))
  /\ sent' = Fetch(NodeHost, Authorization(nodeUrl, nodeAuth))
  /\ UNCHANGED <<env, page>>

GetTxExplorer ==
  /\ path = "idle"
  /\ ~IsRpc(nodeUrl)
  /\ \E r \in ExplorerTxRequests(nodeUrl) :
       /\ path' = "tx-explorer"
       /\ req' = r
       /\ resp' = GetTransactionExplorer(r.txid, r.answer, Source(nodeUrl))
  /\ sent' = Fetch(TxApiUrl(nodeUrl), Authorization(nodeUrl, nodeAuth))
  /\ UNCHANGED <<env, page>>

ListNode ==
  /\ path = "idle"
  /\ IsRpc(nodeUrl)
  /\ \E r \in NodeListRequests :
       /\ path' = "list-node"
       /\ req' = r
       /\ resp' = GetMempoolTxsNode(r.limit, r.answer, Source(nodeUrl))
  /\ sent' = Fetch(NodeHost, Authorization(nodeUrl, nodeAuth))
  /\ UNCHANGED <<env, page>>

ListExplorer ==
  /\ path = "idle"
  /\ ~IsRpc(nodeUrl)
  /\ \E r \in ExplorerListRequests(nodeUrl) :
       /\ path' = "list-explorer"
       /\ req' = r
       /\ resp' = GetMempoolTxsExplorer(r.answer, Source(nodeUrl))
  /\ sent' = Fetch(ApiUrl(nodeUrl), Authorization(nodeUrl, nodeAuth))
  /\ UNCHANGED <<env, page>>

GetSummary ==
  /\ path = "idle"
  /\ \E r \in SummaryRequests(nodeUrl) :
       /\ path' = "summary"
       /\ req' = r
       /\ resp' = GetMempoolInfo(IsRpc(nodeUrl), r.answer, Source(nodeUrl))
  /\ sent' = Fetch(ApiUrl(nodeUrl), Authorization(nodeUrl, nodeAuth))
  /\ UNCHANGED <<env, page>>

Return ==
  /\ path # "idle"
  /\ path' = "idle"
  /\ req' = [txid |-> 0]
  /\ sent' = NoFetch
  /\ resp' = NoResponse
  /\ UNCHANGED <<env, page>>

Next ==
  GetTxNode \/ GetTxExplorer \/ ListNode \/ ListExplorer \/ GetSummary \/ Return

Spec == Init /\ [][Next]_vars

(***************************************************************************)
(* The page's transaction history (Navbar).  An entry of txHistory is      *)
(* [txid, timestamp]: the transaction and the Date.now() of the moment the *)
(* page received it.                                                       *)
(***************************************************************************)
(* The clock stops at MaxNow and the upstream mempool at txid MaxTxid. *)
MaxNow == 1
MaxTxid == 22

(* .slice(0, 20) *)
HistoryLimit == 20

(* fetch('/api/get-mempool-txs?limit=10') *)
PollLimit == 10

(* A poll's response: the n newest txids of the mempool, newest first. *)
Recent(newest, n) ==
  [i \in 1..(IF newest < n THEN newest ELSE n) |-> newest - i + 1]

(* The transactions that entered the mempool since the last poll. *)
FreshCounts == {0, 1, PollLimit}

(* The txids the user searches. *)
SearchTxids == {1}

(* data.map((tx) => ({ ...tx, timestamp: Date.now() })) *)
Stamp(txids, t) == [i \in DOMAIN txids |-> [txid |-> txids[i], timestamp |-> t]]

(* new Set(prev.map((tx) => tx.txid)) *)
ExistingTxids(prev) == {prev[i].txid : i \in DOMAIN prev}

(* Mutation of MergeNewTxs: a polled transaction replaces the entry the    *)
(* history has for it.                                                     *)
MergeReplacing(prev, newTxs) ==
  Take(newTxs \o SelectSeq(prev, LAMBDA tx : tx.txid \notin ExistingTxids(newTxs)),
       HistoryLimit)

(* The updater of a poll: [...filteredNewTxs, ...prev].slice(0, 20) *)
MergeNewTxs(prev, newTxs) ==
  Take(SelectSeq(newTxs, LAMBDA tx : tx.txid \notin ExistingTxids(prev)) \o prev,
       HistoryLimit)

(* The updater of a search:                                                *)
(* [result, ...prev.filter((tx) => tx.txid !== result.txid)].slice(0, 20)  *)
MoveToFront(prev, result) ==
  Take(<<result>> \o SelectSeq(prev, LAMBDA tx : tx.txid # result.txid),
       HistoryLimit)

(* txHistory.filter((tx) => tx.timestamp !== Date.now()) *)
SearchedTxs(history, t) == SelectSeq(history, LAMBDA tx : tx.timestamp # t)

(* The page after its first render with an empty localStorage: the effect  *)
(* that saves the history is due.                                          *)
HistoryInit ==
  /\ nodeUrl = "unset"
  /\ nodeAuth = FALSE
  /\ path = "idle"
  /\ req = [txid |-> 0]
  /\ sent = NoFetch
  /\ resp = NoResponse
  /\ txHistory = <<>>
  /\ stored = None
  /\ now = 0
  /\ pending = TRUE
  /\ latest = 0

(* fetchMempoolTxs, at mount and every 30 seconds, answered with a list:   *)
(* the mempool has grown by fresh transactions.  (A failed poll only logs.) *)
FetchMempoolTxs ==
  /\ ~pending
  /\ \E fresh \in FreshCounts :
       /\ latest + fresh <= MaxTxid
       /\ latest' = latest + fresh
       /\ txHistory' = MergeNewTxs(txHistory, Stamp(Recent(latest', PollLimit), now))
  /\ pending' = TRUE
  /\ UNCHANGED <<stored, now, routes>>

(* handleSearch with a txid whose fetchTransaction gives a transaction. *)
HandleSearch(txid) ==
  /\ ~pending
  /\ txHistory' = MoveToFront(txHistory, [txid |-> txid, timestamp |-> now])
  /\ pending' = TRUE
  /\ UNCHANGED <<stored, now, latest, routes>>

Search == \E txid \in SearchTxids : HandleSearch(txid)

(* clearHistory *)
ClearHistory ==
  /\ ~pending
  /\ txHistory' = <<>>
  /\ stored' = None
  /\ pending' = TRUE
  /\ UNCHANGED <<now, latest, routes>>

(* useEffect(..., [txHistory]): runs after the render of a changed history. *)
PersistHistory ==
  /\ pending
  /\ stored' = Some(SearchedTxs(txHistory, now))
  /\ pending' = FALSE
  /\ UNCHANGED <<txHistory, now, latest, routes>>

(* A millisecond passes. *)
Tick ==
  /\ now < MaxNow
  /\ now' = now + 1
  /\ UNCHANGED <<txHistory, stored, pending, latest, routes>>

HistoryNext ==
  FetchMempoolTxs \/ Search \/ ClearHistory \/ PersistHistory \/ Tick

HistorySpec == HistoryInit /\ [][HistoryNext]_vars

(***************************************************************************)
(* Properties.                                                             *)
(*                                                                         *)
(* Records is the list of records of the response; Origins is, for each    *)
(* record in order, the raw transaction it was made from and the           *)
(* authoritative fee the source gave for it (the mempool entry's fee, in   *)
(* coins, for Node-RPC; the root fee field for Explorer).                  *)
(***************************************************************************)
Records == resp.records

NodePath == path \in {"tx-node", "list-node"}
ExplorerPath == path \in {"tx-explorer", "list-explorer"}

Origins ==
  IF resp.kind # "ok" THEN <<>>
  ELSE CASE path = "tx-node" ->
              <<[tx |-> Get(req.answer.result),
                 auth |-> IF Has(EntryOf(req.entry))
                          THEN Get(EntryOf(req.entry)).fee ELSE None]>>
         [] path = "tx-explorer" ->
              <<[tx |-> Get(req.answer.data), auth |-> Get(req.answer.data).fee]>>
         [] path = "list-node" ->
              Map(LAMBDA item : [tx |-> Get(item.answer.result), auth |-> item.entryFee],
                  Kept(Take(Get(req.answer.result), req.limit)))
         [] path = "list-explorer" ->
              Map(LAMBDA tx : [tx |-> tx, auth |-> tx.fee], Get(req.answer.data))
         [] OTHER -> <<>>

Aligned == Len(Origins) = Len(Records)

(* The script-type tags of a record's inputs and outputs, pooled. *)
Tags(r) ==
  {Get(r.inputs[i].scriptType) : i \in {j \in DOMAIN r.inputs : r.inputs[j].scriptType # None}}
  \cup {Get(r.outputs[i].scriptType) : i \in {j \in DOMAIN r.outputs : r.outputs[j].scriptType # None}}

Precedence(tags) ==
  CASE "p2tr" \in tags -> "Taproot"
    [] "p2tr" \notin tags /\ tags \cap {"v0_p2wpkh", "v0_p2wsh"} # {} -> "SegWit"
    [] tags \cap {"p2tr", "v0_p2wpkh", "v0_p2wsh"} = {}
       /\ tags \cap {"p2pkh", "p2sh"} # {} -> "Legacy"
    [] OTHER -> "Unknown"

(* C1: in every path, walletType follows from the pooled script-type tags  *)
(* of the record's inputs and outputs by the precedence Taproot, SegWit,   *)
(* Legacy, Unknown; the tags {p2pkh, p2tr} give Taproot.                   *)
C1_WalletTypePrecedence ==
  \A i \in DOMAIN Records :
    /\ Records[i].walletType = Precedence(Tags(Records[i]))
    /\ Tags(Records[i]) = {"p2pkh", "p2tr"} => Records[i].walletType = "Taproot"
    /\ Tags(Records[i]) = {} => Records[i].walletType = "Unknown"

C1_Witness ==
  /\ path = "list-explorer"
  /\ \E i \in DOMAIN Records :
       Tags(Records[i]) = {"p2pkh", "p2tr"} /\ Records[i].walletType = "Taproot"

(* C2: the fee of every record is never negative, whatever the             *)
(* authoritative fee and the amounts are.                                  *)
C2_FeeNeverNegative == \A i \in DOMAIN Records : Records[i].fee >= 0

Sum(r, f) == LET RECURSIVE S(_)
                 S(k) == IF k = 0 THEN 0 ELSE S(k - 1) + r[f][k].amount
             IN S(Len(r[f]))

Max0(n) == IF n > 0 THEN n ELSE 0

(* The authoritative fee of record i in satoshis is zero or unavailable. *)
ResolvesToZero(i) ==
  \/ ~Has(Origins[i].auth)
  \/ IF NodePath THEN Get(Origins[i].auth) \in -4..4 ELSE Get(Origins[i].auth) = 0

(* C3: with the authoritative fee unavailable or resolving to zero, and at *)
(* least one input and one output, the fee is                              *)
(* max(0, sum of inputs - sum of outputs), for both shapes.                *)
C3_ConservationFee ==
  /\ Aligned
  /\ \A i \in DOMAIN Records :
       (ResolvesToZero(i) /\ Len(Get(Origins[i].tx.vin)) >= 1
          /\ Len(Get(Origins[i].tx.vout)) >= 1)
       => Records[i].fee = Max0(Sum(Records[i], "inputs") - Sum(Records[i], "outputs"))

(* The same, for the Node-RPC shape alone. *)
C3_NodeConservationFee == NodePath => C3_ConservationFee

(* C4 as stated: a non-zero authoritative fee is the record's fee          *)
(* (Node-RPC: rounded to satoshis; Explorer: unchanged).                   *)
C4_NonZeroAuthoritativeFee ==
  /\ Aligned
  /\ \A i \in DOMAIN Records :
       (Has(Origins[i].auth) /\ Get(Origins[i].auth) # 0)
       => IF NodePath
          THEN 10 * Records[i].fee - Get(Origins[i].auth) \in -5..5
          ELSE Records[i].fee = Get(Origins[i].auth)

(* C4, amended: an authoritative fee that resolves to a non-zero number of *)
(* satoshis is the record's fee (Node-RPC: the nearest whole number of     *)
(* satoshis; Explorer: unchanged), whatever the amounts are.               *)
C4_ResolvedAuthoritativeFee ==
  /\ Aligned
  /\ \A i \in DOMAIN Records :
       ~ResolvesToZero(i)
       => IF NodePath
          THEN 10 * Records[i].fee - Get(Origins[i].auth) \in -5..5
          ELSE Records[i].fee = Get(Origins[i].auth)

C4_Witness ==
  /\ path = "tx-node"
  /\ \E i \in DOMAIN Records :
       /\ Origins[i].auth = Some(1006)
       /\ Records[i].fee = 101
       /\ Sum(Records[i], "inputs") - Sum(Records[i], "outputs") = 199

(* C5: in every record, confirmations > 0 exactly when status is           *)
(* confirmed.                                                              *)
C5_ConfirmationsIffConfirmed ==
  \A i \in DOMAIN Records :
    Records[i].confirmations > 0 <=> Records[i].status = "confirmed"

(* C6: in every record, a block height is present only when status is      *)
(* confirmed.                                                              *)
C6_BlockHeightOnlyWhenConfirmed ==
  \A i \in DOMAIN Records :
    Records[i].blockheight # None => Records[i].status = "confirmed"

(* C7: an Explorer-shaped payload whose status.confirmed is false gives a  *)
(* pending record with confirmations 0 and no block height, in both        *)
(* routes.                                                                 *)
C7_ExplorerUnconfirmed ==
  ExplorerPath =>
    /\ Aligned
    /\ \A i \in DOMAIN Records :
         (Has(Origins[i].tx.status) /\ ~Get(Origins[i].tx.status).confirmed)
         => /\ Records[i].status = "pending"
            /\ Records[i].confirmations = 0
            /\ Records[i].blockheight = None

(* C8: a Node-RPC-shaped payload with confirmations n > 0 gives a          *)
(* confirmed record with confirmations n; with confirmations absent or 0   *)
(* it gives a pending record with confirmations 0.                         *)
C8_NodeConfirmations ==
  NodePath =>
    /\ Aligned
    /\ \A i \in DOMAIN Records :
         LET n == Origins[i].tx.confirmations IN
         /\ (n # None /\ Get(n) > 0)
            => Records[i].status = "confirmed" /\ Records[i].confirmations = Get(n)
         /\ (n = None \/ n = Some(0))
            => Records[i].status = "pending" /\ Records[i].confirmations = 0

C8_Witness ==
  /\ path = "list-node"
  /\ \E i \in DOMAIN Records :
       /\ Origins[i].tx.confirmations = Some(3)
       /\ Records[i].status = "confirmed"
       /\ Records[i].confirmations = 3

(* The witness stack of a raw input as the adapter of the current path     *)
(* reads it: txinwitness for Node-RPC, witness for Explorer, where the     *)
(* single-transaction route falls back on txinwitness.                     *)
StackRead(input) ==
  CASE NodePath -> input.txinwitness
    [] path = "list-explorer" -> input.witness
    [] OTHER -> IF input.witness # None THEN input.witness ELSE input.txinwitness

(* The number of hex characters of the items of a stack. *)
HexChars(stack) ==
  LET RECURSIVE S(_)
      S(k) == IF k = 0 THEN 0 ELSE S(k - 1) + Len(stack[k])
  IN S(Len(stack))

(* The sum of f over the inputs of vin that have a stack. *)
OverStacks(vin, f(_)) ==
  LET RECURSIVE S(_)
      S(k) == IF k = 0 THEN 0
              ELSE S(k - 1) + (IF StackRead(vin[k]) = None THEN 0
                               ELSE f(Get(StackRead(vin[k]))))
  IN S(Len(vin))

TotalHexChars(vin) == OverStacks(vin, HexChars)
OddStacks(vin) == OverStacks(vin, LAMBDA stack : HexChars(stack) % 2)
ItemCount(vin) == OverStacks(vin, Len)

(* C9 as stated: the witness byte size is ceil(totalHexChars / 2), over    *)
(* all witness items of all inputs, for any item lengths.                  *)
C9_SizeIsCeilOfTotal ==
  /\ Aligned
  /\ \A i \in DOMAIN Records :
       LET total == TotalHexChars(Get(Origins[i].tx.vin)) IN
       /\ 2 * Records[i].witness.size >= total
       /\ 2 * Records[i].witness.size <= total + 1

(* C9, amended: the witness byte size is (totalHexChars + k) / 2, k the    *)
(* number of inputs whose items hold an odd number of hex characters; so   *)
(* it is ceil(totalHexChars / 2) whenever at most one input is odd, and    *)
(* the stack ["ab", "cdef"] gives 3.                                       *)
C9_SizeRoundsUpPerInput ==
  /\ Aligned
  /\ \A i \in DOMAIN Records :
       LET vin == Get(Origins[i].tx.vin) IN
       /\ 2 * Records[i].witness.size = TotalHexChars(vin) + OddStacks(vin)
       /\ (Len(vin) = 1 /\ StackRead(vin[1]) = Some(<<"ab", "cdef">>))
          => Records[i].witness.size = 3

C9_Witness ==
  /\ path = "tx-explorer"
  /\ \E i \in DOMAIN Records :
       LET vin == Get(Origins[i].tx.vin) IN
       /\ Len(vin) = 2
       /\ StackRead(vin[1]) = Some(<<"ab", "cdef">>)
       /\ StackRead(vin[2]) = Some(<<"f", "ab">>)
       /\ Records[i].witness.size = 5

(* The upstream answered with a transaction that has its input and output *)
(* lists (single-transaction route).                                       *)
AnsweredTx ==
  CASE path = "tx-node" ->
         req.answer.ok /\ ~req.answer.error /\ req.answer.result # None
         /\ ~Throws(Get(req.answer.result))
    [] path = "tx-explorer" -> req.answer.ok /\ ~Throws(Get(req.answer.data))
    [] OTHER -> FALSE

(* C10: the witness item count is the sum over the inputs of the length of *)
(* the input's stack, 0 for an input without one; without any witness data *)
(* the count and the byte size are 0, and the record is produced.          *)
C10_ItemCount ==
  /\ Aligned
  /\ AnsweredTx => resp.kind = "ok" /\ Len(Records) = 1
  /\ \A i \in DOMAIN Records :
       LET vin == Get(Origins[i].tx.vin) IN
       /\ Records[i].witness.count = ItemCount(vin)
       /\ (\A k \in DOMAIN vin : vin[k].witness = None /\ vin[k].txinwitness = None)
          => Records[i].witness.count = 0 /\ Records[i].witness.size = 0

C10_Witness ==
  /\ path = "list-node"
  /\ \E i \in DOMAIN Records :
       LET vin == Get(Origins[i].tx.vin) IN
       /\ Len(vin) = 2
       /\ vin[1].txinwitness = None
       /\ vin[2].txinwitness = Some(<<"f", "ab">>)
       /\ Records[i].witness.count = 2

(* C11: in every record of every path, a witness item count of 0 implies a *)
(* witness byte size of 0, whether the stacks are absent, empty or         *)
(* non-empty and also when an input carries both witness and txinwitness.  *)
C11_NoItemsNoBytes ==
  \A i \in DOMAIN Records :
    Records[i].witness.count = 0 => Records[i].witness.size = 0

C11_Witness ==
  /\ path = "tx-explorer"
  /\ Aligned
  /\ \E i \in DOMAIN Records :
       LET vin == Get(Origins[i].tx.vin) IN
       /\ \E k \in DOMAIN vin :
            vin[k].witness = Some(<<>>) /\ vin[k].txinwitness = Some(<<"ab">>)
       /\ Records[i].witness.count = 0
       /\ Records[i].witness.size = 0

(* The script type and the disassembly of a raw output as the adapter of   *)
(* the current path reads them for OP_RETURN decoding.                     *)
OwnTag(output) ==
  IF NodePath THEN output.spkType ELSE output.scriptpubkey_type
Disassembly(output) ==
  IF NodePath THEN output.spkAsm ELSE output.scriptpubkey_asm

(* The tokens of a text that whitespace separates: where they start, and   *)
(* the first of them.                                                      *)
IsWhitespace(c) == c \in {" ", "\t"}
TokenStarts(text) ==
  {i \in 1..Len(text) :
     /\ ~IsWhitespace(CharAt(text, i))
     /\ i = 1 \/ IsWhitespace(CharAt(text, i - 1))}
FirstToken(text) ==
  IF TokenStarts(text) = {} THEN ""
  ELSE LET a == CHOOSE i \in TokenStarts(text) : \A j \in TokenStarts(text) : i <= j
           b == CHOOSE j \in a..Len(text) :
                  /\ \A k \in a..j : ~IsWhitespace(CharAt(text, k))
                  /\ j = Len(text) \/ IsWhitespace(CharAt(text, j + 1))
       IN SubSeq(text, a, b)

(* C12 as stated: an output has an opReturn exactly when its type is       *)
(* 'nulldata', a disassembly is present, the first whitespace-separated    *)
(* token of the disassembly is OP_RETURN and a second token exists.        *)
C12_OpReturnIffWhitespaceTokens ==
  /\ Aligned
  /\ \A i \in DOMAIN Records :
       LET vout == Get(Origins[i].tx.vout) IN
       \A k \in DOMAIN vout :
         Records[i].outputs[k].opReturn # None
         <=> /\ OwnTag(vout[k]) = Some("nulldata")
             /\ Disassembly(vout[k]) # None
             /\ FirstToken(Get(Disassembly(vout[k]))) = "OP_RETURN"
             /\ Cardinality(TokenStarts(Get(Disassembly(vout[k])))) >= 2

(* C12, amended: an output has an opReturn exactly when its type is        *)
(* 'nulldata' and its disassembly starts with OP_RETURN, one space and a   *)
(* character that is not a space; a disassembly of OP_RETURN alone or      *)
(* another type gives none.                                                *)
C12_OpReturnIffSingleSpaceTokens ==
  /\ Aligned
  /\ \A i \in DOMAIN Records :
       LET vout == Get(Origins[i].tx.vout) IN
       \A k \in DOMAIN vout :
         LET asm == Disassembly(vout[k]) IN
         /\ Records[i].outputs[k].opReturn # None
            <=> /\ OwnTag(vout[k]) = Some("nulldata")
                /\ asm # None
                /\ Len(Get(asm)) >= 11
                /\ SubSeq(Get(asm), 1, 10) = "OP_RETURN "
                /\ CharAt(Get(asm), 11) # " "
         /\ (asm = Some("OP_RETURN") \/ OwnTag(vout[k]) # Some("nulldata"))
            => Records[i].outputs[k].opReturn = None

C12_Witness ==
  /\ path = "tx-node"
  /\ Aligned
  /\ \E i \in DOMAIN Records :
       LET vout == Get(Origins[i].tx.vout) IN
       /\ Len(vout) = 2
       /\ OwnTag(vout[1]) = None /\ Records[i].outputs[1].opReturn = None
       /\ OwnTag(vout[2]) = Some("nulldata")
       /\ Disassembly(vout[2]) = Some("OP_RETURN 48656c6c6f")
       /\ Records[i].outputs[2].opReturn # None

(* The payload of a disassembly that starts with OP_RETURN and one space:  *)
(* the text up to the next space.                                          *)
Payload(asm) ==
  LET rest == SubSeq(asm, 11, Len(asm))
      spaces == {i \in 1..Len(rest) : CharAt(rest, i) = " "}
  IN IF spaces = {} THEN rest
     ELSE SubSeq(rest, 1, (CHOOSE i \in spaces : \A j \in spaces : i <= j) - 1)

Nibble ==
  ("0" :> 0) @@ ("1" :> 1) @@ ("2" :> 2) @@ ("3" :> 3) @@ ("4" :> 4) @@ ("5" :> 5)
  @@ ("6" :> 6) @@ ("7" :> 7) @@ ("8" :> 8) @@ ("9" :> 9)
  @@ ("a" :> 10) @@ ("b" :> 11) @@ ("c" :> 12) @@ ("d" :> 13) @@ ("e" :> 14) @@ ("f" :> 15)
  @@ ("A" :> 10) @@ ("B" :> 11) @@ ("C" :> 12) @@ ("D" :> 13) @@ ("E" :> 14) @@ ("F" :> 15)

ValidHex(hex) ==
  /\ Len(hex) % 2 = 0
  /\ \A i \in 1..Len(hex) : CharAt(hex, i) \in DOMAIN Nibble

(* The bytes of valid hex that are printable ASCII, as text. *)
PrintableText(hex) ==
  LET byte(k) == 16 * Nibble[CharAt(hex, 2 * k - 1)] + Nibble[CharAt(hex, 2 * k)]
      RECURSIVE T(_)
      T(k) == IF k = 0 THEN ""
              ELSE IF byte(k) >= 32 /\ byte(k) <= 126 THEN T(k - 1) \o Chr(byte(k))
              ELSE T(k - 1)
  IN T(Len(hex) \div 2)

(* C13: for an output with an opReturn whose payload is valid hex of even  *)
(* length, the opReturn is the payload's bytes as text without the         *)
(* characters outside 0x20-0x7E when that is not empty, and the hex        *)
(* payload itself otherwise; "OP_RETURN 48656c6c6f" gives "Hello".         *)
C13_DecodedText ==
  /\ Aligned
  /\ \A i \in DOMAIN Records :
       LET vout == Get(Origins[i].tx.vout) IN
       \A k \in DOMAIN vout :
         (Records[i].outputs[k].opReturn # None
            /\ ValidHex(Payload(Get(Disassembly(vout[k])))))
         => LET hex == Payload(Get(Disassembly(vout[k])))
                text == Get(Records[i].outputs[k].opReturn)
            IN /\ text = IF PrintableText(hex) # "" THEN PrintableText(hex) ELSE hex
               /\ hex = "48656c6c6f" => text = "Hello"

C13_Witness ==
  /\ path = "list-node"
  /\ Aligned
  /\ \E i \in DOMAIN Records :
       \E k \in DOMAIN Records[i].outputs :
         /\ Disassembly(Get(Origins[i].tx.vout)[k]) = Some("OP_RETURN 48c3a97f69")
         /\ Records[i].outputs[k].opReturn = Some("Hi")

(* C14: for an output with an opReturn whose payload is malformed hex (of  *)
(* odd length or with a character that is no hex digit), the opReturn is   *)
(* the whole disassembly, unchanged, and the record is produced.           *)
C14_MalformedHexGivesDisassembly ==
  /\ Aligned
  /\ AnsweredTx => resp.kind = "ok" /\ Len(Records) = 1
  /\ \A i \in DOMAIN Records :
       LET vout == Get(Origins[i].tx.vout) IN
       \A k \in DOMAIN vout :
         (Records[i].outputs[k].opReturn # None
            /\ ~ValidHex(Payload(Get(Disassembly(vout[k])))))
         => Records[i].outputs[k].opReturn = Disassembly(vout[k])

(* The record input and the record output that the adapter of the current *)
(* path makes of a raw input and of a raw output.                          *)
InputOf(input) ==
  CASE NodePath -> NodeInput(input)
    [] path = "tx-explorer" -> ExplorerInput(input)
    [] OTHER -> ExplorerListInput(input)
OutputOf(output) ==
  CASE path = "tx-node" -> NodeOutput(output)
    [] path = "list-node" -> NodeListOutput(output)
    [] path = "tx-explorer" -> ExplorerOutput(output)
    [] OTHER -> ExplorerListOutput(output)

(* C15: in every path the inputs and the outputs of a record are as many   *)
(* as the raw inputs and outputs and in the same order, the i-th made from *)
(* the i-th.                                                               *)
C15_SameLengthSameOrder ==
  /\ Aligned
  /\ \A i \in DOMAIN Records :
       LET vin == Get(Origins[i].tx.vin)
           vout == Get(Origins[i].tx.vout)
       IN /\ Len(Records[i].inputs) = Len(vin)
          /\ Len(Records[i].outputs) = Len(vout)
          /\ \A k \in DOMAIN vin : Records[i].inputs[k] = InputOf(vin[k])
          /\ \A k \in DOMAIN vout : Records[i].outputs[k] = OutputOf(vout[k])

C15_Witness ==
  /\ path = "list-node"
  /\ Aligned
  /\ \E i \in DOMAIN Records :
       LET vin == Get(Origins[i].tx.vin)
           vout == Get(Origins[i].tx.vout)
       IN /\ Len(vin) = 2 /\ Len(vout) = 2
          /\ PrevoutField(vin[1], "value") = Some(5000)
          /\ PrevoutField(vin[2], "value") = Some(7000)
          /\ Records[i].inputs[1].amount = 500 /\ Records[i].inputs[2].amount = 700
          /\ vout[1].value = Some(7004) /\ vout[2].value = Some(5005)
          /\ Records[i].outputs[1].amount = 700 /\ Records[i].outputs[2].amount = 501

(* The answer to the transaction request says that the transaction does   *)
(* not exist: for Node-RPC an answer with an error or without a result,    *)
(* for Explorer the answer 404.                                            *)
UpstreamNotFound ==
  CASE path = "tx-node" ->
         req.answer.ok /\ (req.answer.error \/ req.answer.result = None)
    [] path = "tx-explorer" -> ~req.answer.ok /\ req.answer.status = 404
    [] OTHER -> FALSE

(* The transaction request failed otherwise. *)
UpstreamOtherFailure ==
  /\ path \in {"tx-node", "tx-explorer"}
  /\ ~req.answer.ok
  /\ req.answer.status # 404

ReportedNotFound ==
  /\ resp.kind = "error"
  /\ resp.http = 404 \/ Get(resp.error).text = "not found"

(* C16: on the single-transaction route an upstream answer saying that the *)
(* transaction does not exist gives a 404 error whose message holds the    *)
(* requested txid, and no record; another upstream failure is not reported *)
(* as not found.                                                           *)
C16_NotFoundOnlyWhenNotFound ==
  /\ UpstreamNotFound
     => /\ resp.kind = "error" /\ resp.http = 404 /\ Records = <<>>
        /\ Get(resp.error).text = "not found"
        /\ Get(resp.error).txid = Some(req.txid)
  /\ UpstreamOtherFailure => ~ReportedNotFound

(* The first half of C16 alone. *)
C16_NotFoundReported ==
  UpstreamNotFound
  => /\ resp.kind = "error" /\ resp.http = 404 /\ Records = <<>>
     /\ Get(resp.error).text = "not found"
     /\ Get(resp.error).txid = Some(req.txid)

(* The route was answered with a transaction payload that lacks vin or     *)
(* vout; for the Node-RPC list, the items of the loop that are such.       *)
LacksLists(tx) == tx.vin = None \/ tx.vout = None
MalformedAnswered ==
  CASE path = "tx-node" ->
         req.answer.ok /\ ~req.answer.error /\ req.answer.result # None
         /\ LacksLists(Get(req.answer.result))
    [] path = "tx-explorer" -> req.answer.ok /\ LacksLists(Get(req.answer.data))
    [] path = "list-explorer" ->
         req.answer.ok
         /\ \E k \in DOMAIN Get(req.answer.data) : LacksLists(Get(req.answer.data)[k])
    [] OTHER -> FALSE
ListedItems ==
  IF path = "list-node" /\ req.answer.ok /\ ~req.answer.error
     /\ req.answer.result # None
  THEN Take(Get(req.answer.result), req.limit)
  ELSE <<>>
MalformedItem(item) ==
  /\ item.answer.ok /\ ~item.answer.error /\ item.answer.result # None
  /\ LacksLists(Get(item.answer.result))
WellFormedItem(item) ==
  /\ item.answer.ok /\ ~item.answer.error /\ item.answer.result # None
  /\ ~LacksLists(Get(item.answer.result))

(* C17 as stated: in every path a payload without vin or vout gives no     *)
(* record and an error response.                                           *)
C17_MissingListsAreAnError ==
  /\ MalformedAnswered => resp.kind = "error" /\ Records = <<>>
  /\ \A k \in DOMAIN ListedItems :
       MalformedItem(ListedItems[k]) => resp.kind = "error" /\ Records = <<>>

(* C17, amended: a payload without vin or vout gives no record; the        *)
(* single-transaction route (both shapes) and the Explorer list answer     *)
(* with an error of status 500 and no record at all; the Node-RPC list     *)
(* leaves the transaction out and answers 200 with the records of the      *)
(* other transactions.                                                     *)
C17_MissingListsGiveNoRecord ==
  /\ MalformedAnswered
     => resp.kind = "error" /\ resp.http = 500 /\ Records = <<>>
  /\ ListedItems # <<>>
     => /\ resp.kind = "ok"
        /\ \A k \in DOMAIN ListedItems :
             /\ MalformedItem(ListedItems[k])
                => \A i \in DOMAIN Records : Records[i].txid # ListedItems[k].txid
             /\ WellFormedItem(ListedItems[k])
                => \E i \in DOMAIN Records : Records[i].txid = ListedItems[k].txid

C17_Witness ==
  /\ path = "list-node"
  /\ Len(ListedItems) = 2
  /\ MalformedItem(ListedItems[1])
  /\ WellFormedItem(ListedItems[2])
  /\ resp.kind = "ok"
  /\ Len(Records) = 1
  /\ Records[1].txid = ListedItems[2].txid

(* The summary request was answered OK with a body, which for Node-RPC     *)
(* has a result.                                                           *)
SummaryAnswered ==
  /\ path = "summary"
  /\ req.answer.ok
  /\ req.answer.data # None
  /\ IsRpc(nodeUrl) => Get(req.answer.data).result # None

Default0(field) == IF field = None THEN 0 ELSE field[1]

(* C18: the summary of a Node-RPC answer has count = result.size,          *)
(* vsize = result.bytes and total_fee = 0; the summary of an Explorer      *)
(* answer has the payload's count, total_fee and vsize; an absent field is *)
(* 0; a Node-RPC answer without result gives an error and no summary.      *)
C18_Summary ==
  path = "summary" =>
    IF SummaryAnswered
    THEN /\ resp.kind = "ok" /\ resp.summary # None
         /\ LET stats == Get(resp.summary)
                data == Get(req.answer.data)
            IN IF IsRpc(nodeUrl)
               THEN /\ stats.count = Default0(Get(data.result).size)
                    /\ stats.vsize = Default0(Get(data.result).bytes)
                    /\ stats.total_fee = 0
               ELSE /\ stats.count = Default0(data.count)
                    /\ stats.total_fee = Default0(data.total_fee)
                    /\ stats.vsize = Default0(data.vsize)
    ELSE resp.kind = "error" /\ resp.summary = None

C18_Witness ==
  /\ SummaryAnswered
  /\ IsRpc(nodeUrl)
  /\ Get(Get(req.answer.data).result) = [size |-> Some(12), bytes |-> None, total_fee |-> Some(5)]
  /\ Get(resp.summary).count = 12
  /\ Get(resp.summary).vsize = 0
  /\ Get(resp.summary).total_fee = 0

(* The raw address fields and type fields that the adapter of the current *)
(* path reads of a prevout or of an output, and the size it reads.         *)
AddressFields(r) ==
  CASE NodePath -> {r.spkAddress}
    [] path = "list-explorer" -> {r.scriptpubkey_address}
    [] OTHER -> {r.scriptpubkey_address, r.spkAddress}
TypeFields(r) ==
  CASE NodePath -> {r.spkType}
    [] path = "list-explorer" -> {r.scriptpubkey_type}
    [] OTHER -> {r.scriptpubkey_type, r.spkType}
SizeRead(tx) ==
  IF path = "tx-node"
  THEN IF req.entry.ok /\ req.entry.result # None
       THEN Get(req.entry.result).vsize ELSE None
  ELSE tx.size

(* Every transaction answered with its input and output lists has its      *)
(* record.                                                                 *)
RecordsProduced ==
  /\ AnsweredTx => resp.kind = "ok" /\ Len(Records) = 1
  /\ (path = "list-explorer" /\ req.answer.ok /\ ~MalformedAnswered)
     => resp.kind = "ok" /\ Len(Records) = Len(Get(req.answer.data))
  /\ \A k \in DOMAIN ListedItems :
       WellFormedItem(ListedItems[k])
       => \E i \in DOMAIN Records : Records[i].txid = ListedItems[k].txid

(* C20: in all four paths an input without prevout data and an output      *)
(* without a value have amount 0, a missing address or script type is      *)
(* absent in the record, a missing version, locktime or size is 0, and the *)
(* record is produced.                                                     *)
C20_MissingFieldsDefault ==
  /\ Aligned
  /\ RecordsProduced
  /\ \A i \in DOMAIN Records :
       LET tx == Origins[i].tx
           vin == Get(tx.vin)
           vout == Get(tx.vout)
       IN /\ \A k \in DOMAIN vin :
               LET prevout == vin[k].prevout
                   input == Records[i].inputs[k]
               IN /\ (prevout = None \/ Get(prevout).value = None) => input.amount = 0
                  /\ (prevout = None \/ AddressFields(Get(prevout)) = {None})
                     => input.address = None
                  /\ (prevout = None \/ TypeFields(Get(prevout)) = {None})
                     => input.scriptType = None
          /\ \A k \in DOMAIN vout :
               LET output == Records[i].outputs[k] IN
               /\ vout[k].value = None => output.amount = 0
               /\ AddressFields(vout[k]) = {None} => output.address = None
               /\ TypeFields(vout[k]) = {None} => output.scriptType = None
          /\ tx.version = None => Records[i].version = 0
          /\ tx.locktime = None => Records[i].locktime = 0
          /\ SizeRead(tx) = None => Records[i].size = 0

C20_Witness ==
  /\ path = "tx-explorer"
  /\ Aligned
  /\ \E i \in DOMAIN Records :
       LET tx == Origins[i].tx IN
       /\ Get(tx.vin) = <<In(None, None, None)>>
       /\ Get(tx.vout) = <<[FullOut EXCEPT !.value = None]>>
       /\ tx.version = None /\ tx.locktime = None /\ tx.size = None
       /\ Records[i].inputs[1] = [address |-> None, amount |-> 0, scriptType |-> None]
       /\ Records[i].outputs[1].amount = 0
       /\ Records[i].outputs[1].address = Some("3flat")
       /\ Records[i].version = 0 /\ Records[i].locktime = 0 /\ Records[i].size = 0

(* The source tags of the response: of its body and of each record. *)
SourceTags ==
  {resp.source} \cup {Records[i].source : i \in DOMAIN Records}
  \cup (IF resp.summary = None THEN {} ELSE {Get(resp.summary).source})

(* C21: the source tag of every record, summary and error is              *)
(* 'Local Bitcoin Node' only if the payload was fetched from               *)
(* BITCOIN_NODE_URL and 'Mempool.space' only if it was fetched from        *)
(* mempool.space, for every BITCOIN_NODE_URL and every request.            *)
C21_SourceNamesUpstream ==
  path # "idle" =>
    \A tag \in SourceTags :
      /\ tag = "Local Bitcoin Node" => sent.to = NodeHost
      /\ tag = "Mempool.space" => sent.to = ExplorerHost

(* The same, for every request but the Explorer path of the               *)
(* single-transaction route.                                               *)
C21_SourceNamesUpstreamElsewhere ==
  path \notin {"idle", "tx-explorer"} =>
    \A tag \in SourceTags :
      /\ tag = "Local Bitcoin Node" => sent.to = NodeHost
      /\ tag = "Mempool.space" => sent.to = ExplorerHost

(* C28: for every BITCOIN_NODE_URL and BITCOIN_NODE_AUTH and every request *)
(* (summary, transaction, list), no fetch sent to mempool.space carries    *)
(* the Authorization header made of BITCOIN_NODE_AUTH.                     *)
C28_NoCredentialsToExplorer ==
  sent.to = ExplorerHost => ~sent.authorization

(* The same, for every request but the Explorer path of the               *)
(* single-transaction route.                                               *)
C28_NoCredentialsToExplorerElsewhere ==
  (path # "tx-explorer" /\ sent.to = ExplorerHost) => ~sent.authorization

(* The stacks that the adapter of the current path reads of the inputs,    *)
(* carried by inputs of the Node-RPC shape and of the Explorer shape.      *)
StacksRead(vin) == [k \in DOMAIN vin |-> StackRead(vin[k])]
AsNodeInputs(stacks) == [k \in DOMAIN stacks |-> In(None, stacks[k], None)]
AsExplorerInputs(stacks) == [k \in DOMAIN stacks |-> In(None, None, stacks[k])]

(* C23: the witness byte size is the sum, over the inputs that have a      *)
(* stack, of ceil(n / 2), n the length of the input's items concatenated;  *)
(* the four adapters give the same size for the same stacks.               *)
C23_SizePerInput ==
  /\ Aligned
  /\ \A i \in DOMAIN Records :
       LET vin == Get(Origins[i].tx.vin)
           size == Records[i].witness.size
       IN /\ size = OverStacks(vin, LAMBDA stack : (HexChars(stack) + 1) \div 2)
          /\ NodeWitness(AsNodeInputs(StacksRead(vin))).size = size
          /\ ExplorerWitness(AsExplorerInputs(StacksRead(vin))).size = size
          /\ ExplorerWitness(AsNodeInputs(StacksRead(vin))).size = size
          /\ ExplorerListWitness(AsExplorerInputs(StacksRead(vin))).size = size

C23_Witness ==
  /\ path = "list-explorer"
  /\ Aligned
  /\ \E i \in DOMAIN Records :
       LET vin == Get(Origins[i].tx.vin) IN
       /\ Len(vin) = 2
       /\ StackRead(vin[1]) = Some(<<"f">>)
       /\ StackRead(vin[2]) = Some(<<"f", "ab">>)
       /\ Records[i].witness.size = 3

(* The mempool of the Node-RPC list was answered with its txids. *)
MempoolAnswered ==
  /\ path = "list-node"
  /\ req.answer.ok /\ ~req.answer.error /\ req.answer.result # None

(* The txids of the first n items, in order, whose getrawtransaction       *)
(* answered with a transaction that has its lists.                         *)
FetchedTxids(items, n) ==
  LET RECURSIVE F(_)
      F(k) == IF k <= 0 THEN <<>>
              ELSE IF WellFormedItem(items[k]) THEN Append(F(k - 1), items[k].txid)
              ELSE F(k - 1)
  IN F(IF n < Len(items) THEN n ELSE Len(items))

LimitHolds ==
  LET items == Get(req.answer.result) IN
  /\ resp.kind = "ok"
  /\ Len(Records) <= req.limit
  /\ [i \in DOMAIN Records |-> Records[i].txid] = FetchedTxids(items, req.limit)
  /\ \A i \in DOMAIN Records :
       \E k \in DOMAIN items :
         /\ items[k].txid = Records[i].txid
         /\ Records[i] = NodeListRecord(items[k].txid, items[k].entryFee,
                                        Get(items[k].answer.result), resp.source)

(* C24: the Node-RPC list answers with at most limit records, one, in      *)
(* mempool key order, for each of the first limit txids whose              *)
(* getrawtransaction gave a transaction; a txid that fails, has an error   *)
(* or throws is skipped, without failing the request or changing the       *)
(* other records.                                                          *)
C24_AtMostLimitRecords == MempoolAnswered => LimitHolds

(* The same, for a limit that is not negative. *)
C24_AtMostLimitRecordsFromZero ==
  (MempoolAnswered /\ req.limit >= 0) => LimitHolds

(* A fetch of the request rejected: a network error or the abort of the    *)
(* timeout.                                                                *)
FetchRejected ==
  /\ path # "idle"
  /\ Has(req.answer.thrown) \/ (path = "tx-node" /\ Has(req.entry.thrown))

(* The non-OK status of the upstream answer a route throws for: the        *)
(* getrawtransaction, getrawmempool, /mempool/recent and summary answers.  *)
(* (The Explorer transaction route answers a non-OK status without         *)
(* throwing.)                                                              *)
ThrownStatus ==
  IF /\ path \in {"tx-node", "list-node", "list-explorer", "summary"}
     /\ ~FetchRejected
     /\ ~req.answer.ok
  THEN Some(req.answer.status)
  ELSE None

(* The answer the single-transaction routes return 404 for, not throwing. *)
ReturnedNotFound ==
  /\ ~FetchRejected
  /\ CASE path = "tx-node" ->
            req.answer.ok /\ (req.answer.error \/ req.answer.result = None)
       [] path = "tx-explorer" -> ~req.answer.ok
       [] OTHER -> FALSE

C25_WitnessOtherFailures ==
  \/ FetchRejected /\ Get(resp.error).text = "This operation was aborted"
       /\ resp.http = 500 /\ resp.status = None
  \/ MalformedAnswered /\ resp.kind = "error" /\ resp.http = 500

(* The raw value of an Explorer-shaped input or output: the integer number *)
(* of satoshis of the payload, 0 where it is absent.                       *)
RawValue(v) == IF Has(v) THEN Get(v) \div NANO ELSE 0
RawAmounts(tx) ==
  [inputs |-> [i \in DOMAIN Get(tx.vin) |->
                 RawValue(PrevoutField(Get(tx.vin)[i], "value"))],
   outputs |-> [i \in DOMAIN Get(tx.vout) |-> RawValue(Get(tx.vout)[i].value)]]

(* The amounts a record reports. *)
AmountsOf(r) ==
  [inputs |-> [i \in DOMAIN r.inputs |-> r.inputs[i].amount],
   outputs |-> [i \in DOMAIN r.outputs |-> r.outputs[i].amount]]

(* C27: for the same Explorer-shaped raw transaction the single route and  *)
(* the list route report the same input and output amounts: the raw        *)
(* integer satoshi value, 0 where it is absent.                            *)
C27_SameAmountsBothRoutes ==
  ExplorerPath =>
    \A i \in DOMAIN Records :
      LET tx == Origins[i].tx IN
      /\ AmountsOf(Records[i]) = RawAmounts(tx)
      /\ AmountsOf(ExplorerRecord(tx, resp.source)) =
           AmountsOf(ExplorerListRecord(tx, resp.source))

(* The list route alone reports the raw values. *)
C27_ListReportsRawValues ==
  path = "list-explorer" =>
    \A i \in DOMAIN Records : AmountsOf(Records[i]) = RawAmounts(Origins[i].tx)

(* C22: once the effect that saves the history has run, the 'txHistory'   *)
(* item of localStorage holds exactly the entries of the history in        *)
(* memory, whenever they were added.                                       *)
C22_StoredIsHistory == ~pending => stored = Some(txHistory)

(* What the item does hold: entries of the history, in its order. *)
C22_StoredIsPartOfHistory ==
  ~pending =>
    /\ Has(stored)
    /\ Get(stored) =
         SelectSeq(txHistory,
                   LAMBDA tx : \E i \in DOMAIN Get(stored) : Get(stored)[i] = tx)

(* The history holds at most 20 entries and no txid twice. *)
BoundedAndDistinct ==
  /\ Len(txHistory) <= HistoryLimit
  /\ \A i, j \in DOMAIN txHistory :
       txHistory[i].txid = txHistory[j].txid => i = j

(* A poll leaves every entry it keeps as it was. *)
PollKeepsEntries ==
  FetchMempoolTxs =>
    \A i \in DOMAIN txHistory :
      (\E j \in DOMAIN txHistory' : txHistory'[j].txid = txHistory[i].txid)
      => \E j \in DOMAIN txHistory' : txHistory'[j] = txHistory[i]

(* A search puts the searched transaction first. *)
SearchMovesToFront ==
  \A txid \in SearchTxids :
    HandleSearch(txid) => txHistory' # <<>> /\ Head(txHistory').txid = txid

(* C26: from an empty history, after any polls and successful searches,    *)
(* the history holds at most 20 entries, no two with the same txid; a poll *)
(* never replaces an entry the history has, and a search moves the         *)
(* searched transaction to the front.                                      *)
C26_History ==
  /\ []BoundedAndDistinct
  /\ [][PollKeepsEntries /\ SearchMovesToFront]_vars

(* A full history whose first entry was searched after newer transactions  *)
(* were polled.                                                            *)
C26_Witness ==
  /\ Len(txHistory) = HistoryLimit
  /\ latest > HistoryLimit
  /\ txHistory[1].txid = 1
  /\ txHistory[1].timestamp > txHistory[2].timestamp

====
